---- MODULE Spec2Model ----
(***************************************************************************)
(* SpectreNet: a per-frequency message board with a scripted ATC           *)
(* controller.  The model covers the channel bus (get_channel,             *)
(* send_message, fetch_messages, housekeeping), the transmit policy gate,  *)
(* the router handle_atc and the runway scheduler (RUNWAY_STATE,           *)
(* process_runway_sequencing).                                             *)
(*                                                                         *)
(* Texts are modelled by what the code extracts from them: the comma       *)
(* separated parts, the set of configured phrase classes the request text  *)
(* contains, and the runway token RUNWAY_RE would see.  Template choice    *)
(* (random.choice over a pool) is abstracted to the kind of reply.         *)
(* Every handler reads the clock once: the value now.                      *)
(***************************************************************************)
EXTENDS Integers, Sequences, FiniteSets, TLC

VARIABLES
    now,                    \* time.time(), in seconds
    channels,               \* freq -> [next_id, messages, last_active]
    RUNWAY_STATE,           \* slots in dict iteration order
    PILOT_ASSIGNED_RUNWAY,  \* <<airport, callsign>> -> runway end
    ACTIVE_EMERGENCIES,     \* <<airport, CALLSIGN>> -> [type, runway, started_at]
    ACTIVE_FLIGHT_PLANS,    \* <<airport, CALLSIGN>> -> timestamp
    NEXT_HOUSEKEEP,         \* _NEXT_HOUSEKEEP
    SEQUENCING,             \* atc_config["sequencing"] flags, fixed at load
    out,                    \* what the last request returned to its caller
    objects,                \* the slot dicts get_runway_state has created
    slot_of,                \* <<airport, runway>> -> the slot dict RUNWAY_STATE holds
    handler,                \* each request thread: where it is, and its locals
    arrivals                \* requests taken up by the threads so far

\* The state of the handlers run one at a time, and of the threads.
seqVars == <<channels, RUNWAY_STATE, PILOT_ASSIGNED_RUNWAY, ACTIVE_EMERGENCIES,
             ACTIVE_FLIGHT_PLANS, NEXT_HOUSEKEEP, out>>

concVars == <<objects, slot_of, handler, arrivals>>

vars == <<now, SEQUENCING, seqVars, concVars>>

-----------------------------------------------------------------------------
(* Program constants *)

MAX_MESSAGES == 100
FREQUENCY_EXPIRE_SECONDS == 1800
HOUSEKEEP_MIN_INTERVAL == 15
EMERGENCY_TTL_SECONDS == 300
FLIGHT_PLAN_TTL_SECONDS == 3600
DEFAULT_FREQUENCY == 16

-----------------------------------------------------------------------------
(* Bounds of the model *)

MaxTime == 4
MaxId == 5
BusMaxId == 102       \* the same cap in SpecBus, past MAX_MESSAGES
ConcMaxTime == 2      \* the clock of SpecConc
ConcMaxRequests == 3  \* requests the threads of SpecConc take up
LiveMaxTime == 2      \* the clock of SpecLive is kept within 0..LiveMaxTime
LiveSendBy == 1       \* transmissions of SpecLive are sent up to this time
LiveMaxId == 5        \* and while next_id is at most this
RouteMaxTime == 2     \* the clock of SpecRoute
RouteMaxId == 3       \* sends of SpecRoute go to channels with next_id up to this
GateMaxTime == 2      \* the clock of SpecGate
GateMaxId == 3        \* its tower requests go to channels with next_id up to this
GateMaxChat == 2      \* and its chat to channels with next_id up to this
ExpiryMaxTicks == 4   \* the clock of SpecExpiry advances this many times
ExpiryMaxId == 3      \* sends of SpecExpiry go to channels with next_id up to this
BusMaxRequests == 3   \* requests the threads of SpecConcBus take up
RaceMaxSends == 3     \* transmissions the threads of SpecConcSweep take up
RaceMaxFetches == 2   \* and polls

-----------------------------------------------------------------------------
(* Configuration loaded at start-up (airports.json, atc_config.json,       *)
(* channels.json).  It is read-only while the server runs.                 *)

Absent == "absent"

\* airports.json: ABCD with distinct tower and ground frequencies and two
\* physical runways, each with one landing end and one takeoff end, and EFGH
\* with one runway and a single frequency, which channels.json restricts to
\* whitelisted senders.
ATC_TOWERS ==
    [ABCD |-> [tower_frequency  |-> 120,
               ground_frequency |-> 121,
               tower_sender     |-> "ABCD Tower",
               ground_sender    |-> "ABCD Ground",
               runways |-> << [physical_id |-> "RWY1",
                               landing_ends |-> <<"09">>,
                               takeoff_ends |-> <<"27">>],
                              [physical_id |-> "RWY2",
                               landing_ends |-> <<"18">>,
                               takeoff_ends |-> <<"36">>] >>],
     EFGH |-> [tower_frequency  |-> 901,
               ground_frequency |-> 901,
               tower_sender     |-> "EFGH Tower",
               ground_sender    |-> "EFGH Ground",
               runways |-> << [physical_id |-> "RWY1",
                               landing_ends |-> <<"09">>,
                               takeoff_ends |-> <<"27">>] >>]]

\* channels.json: frequency -> tx_policy.
CHANNELS_BY_FREQ ==
    [f \in {900, 901, 902} |->
        CASE f = 900 -> [mode |-> "server_only", allowed_uuids |-> {}]
          [] f = 901 -> [mode |-> "whitelist_uuid", allowed_uuids |-> {"u1"}]
          [] f = 902 -> [mode |-> "open", allowed_uuids |-> {}]]

\* atc_config["trigger_phrases"], in the order of the configuration file.
TRIGGER_PHRASES == <<"takeoff", "landing", "taxi", "startup">>

\* atc_config["sequencing"]["occupancy_seconds"]
OCCUPANCY == [landing |-> 2, takeoff |-> 2, emergency_landing |-> 3]

OccupancyGet(key, default) ==
    IF key \in DOMAIN OCCUPANCY THEN OCCUPANCY[key] ELSE default

\* The template pools that are configured non-empty.
TEMPLATE_POOLS ==
    {"responses.takeoff", "responses.landing", "responses.taxi", "responses.startup",
     "auto_clear.emergency_landing_clearance",
     "redirects.tower_to_ground", "redirects.ground_to_tower",
     "redirects.wrong_airport_frequency",
     "holds.takeoff", "holds.landing", "holds.emergency_hold_traffic",
     "invalid_runway.takeoff", "invalid_runway.landing",
     "flight_plan.responses"}

HasTemplates(pool) == pool \in TEMPLATE_POOLS

\* SEQUENCING.get(flag, default) on a flag that is true, false or absent.
SeqGet(flag, default) ==
    IF SEQUENCING[flag] = Absent THEN default ELSE SEQUENCING[flag] = "true"

-----------------------------------------------------------------------------
(* Values *)

\* state["active"] = None
None ==
    [airport |-> "", runway |-> "", callsign |-> "", action |-> "",
     frequency |-> 0, sender |-> "", emergency |-> FALSE]

\* handle_atc returning None
NoReply ==
    [kind |-> "none", action |-> "", callsign |-> "", runway |-> "", position |-> 0,
     frequency |-> 0, sender |-> ""]

\* A controller transmission: the kind of template it was built from and the
\* values substituted into it.
Reply(kind, action, callsign, runway, position, frequency, sender) ==
    [kind |-> kind, action |-> action, callsign |-> callsign, runway |-> runway,
     position |-> position, frequency |-> frequency, sender |-> sender]

-----------------------------------------------------------------------------
(* Channel bus *)

\* get_channel: the channel of freq, created with next_id 1 when absent;
\* last_active is refreshed in either case.
get_channel(chs, freq, t) ==
    IF freq \in DOMAIN chs
    THEN [chs EXCEPT ![freq].last_active = t]
    ELSE [f \in DOMAIN chs \cup {freq} |->
            IF f = freq
            THEN [next_id |-> 1, messages |-> <<>>, last_active |-> t]
            ELSE chs[f]]

\* deque_append on a deque built without maxlen: nothing is ever dropped.
deque_append_unbounded(messages, msg) == Append(messages, msg)

\* deque(maxlen=MAX_MESSAGES).append: the oldest message is dropped when full.
deque_append(messages, msg) ==
    IF Len(messages) >= MAX_MESSAGES
    THEN Append(Tail(messages), msg)
    ELSE Append(messages, msg)

\* store_message without the line next_id += 1.
store_message_same_id(chs, freq, text, sender) ==
    [chs EXCEPT ![freq].messages =
                    deque_append(@, [id |-> chs[freq].next_id, text |-> text,
                                     sender |-> sender])]

\* The three lines that store a message: build it with id next_id, append,
\* next_id += 1.  The channel must exist.
store_message(chs, freq, text, sender) ==
    [chs EXCEPT ![freq].messages =
                    deque_append(@, [id |-> chs[freq].next_id, text |-> text,
                                     sender |-> sender]),
                ![freq].next_id = @ + 1]

\* can_transmit_on_frequency without the whitelist test: a whitelisted
\* frequency is open to every sender.
can_transmit_whitelist_ignored(freq, sender_uuid) ==
    IF freq \notin DOMAIN CHANNELS_BY_FREQ THEN TRUE
    ELSE CHANNELS_BY_FREQ[freq].mode \in {"open", "whitelist_uuid"}

\* can_transmit_on_frequency
can_transmit_on_frequency(freq, sender_uuid) ==
    IF freq \notin DOMAIN CHANNELS_BY_FREQ THEN TRUE
    ELSE LET mode == CHANNELS_BY_FREQ[freq].mode IN
         CASE mode = "open" -> TRUE
           [] mode = "server_only" -> FALSE
           [] mode = "whitelist_uuid" ->
                sender_uuid \in CHANNELS_BY_FREQ[freq].allowed_uuids
           [] OTHER -> FALSE

\* cleanup_expired_frequencies removing every channel that is idle at all.
cleanup_expired_frequencies_eager(chs, t) ==
    [f \in {g \in DOMAIN chs : ~(t - chs[g].last_active > 0)} |-> chs[f]]

\* cleanup_expired_frequencies with >= in place of >.
cleanup_expired_frequencies_at_limit(chs, t) ==
    [f \in {g \in DOMAIN chs : ~(t - chs[g].last_active >= FREQUENCY_EXPIRE_SECONDS)}
        |-> chs[f]]

\* cleanup_expired_frequencies
cleanup_expired_frequencies(chs, t) ==
    [f \in {g \in DOMAIN chs : ~(t - chs[g].last_active > FREQUENCY_EXPIRE_SECONDS)}
        |-> chs[f]]

\* cleanup_stale_emergencies
cleanup_stale_emergencies(em, t) ==
    [k \in {j \in DOMAIN em : ~(t - em[j].started_at > EMERGENCY_TTL_SECONDS)}
        |-> em[k]]

\* cleanup_stale_flight_plans
cleanup_stale_flight_plans(fp, t) ==
    [k \in {j \in DOMAIN fp : ~(t - fp[j] > FLIGHT_PLAN_TTL_SECONDS)} |-> fp[k]]

\* The list comprehension with m["id"] >= since_id.
messages_since_inclusive(messages, since_id) ==
    SelectSeq(messages, LAMBDA m : m.id >= since_id)

\* fetch_messages' list comprehension
messages_since(messages, since_id) ==
    SelectSeq(messages, LAMBDA m : m.id > since_id)

-----------------------------------------------------------------------------
(* Runway helpers *)

\* str.upper() on the callsigns and runway ends the model uses.
Upper(s) ==
    CASE s = "n1" -> "N1"
      [] s = "n2" -> "N2"
      [] OTHER -> s

\* The text of a runway token: the digits that follow "runway"/"rwy" and the
\* side letter after them ("" when there is none).
RunwayToken(digits, side) == [digits |-> digits, side |-> side]

NoRunwayToken == RunwayToken(<<>>, "")

\* f"{num:02d}"
Format02d(num) == IF num < 10 THEN "0" \o ToString(num) ELSE ToString(num)

\* parse_requested_runway: RUNWAY_RE is ([0-3]?\d) followed by a word
\* boundary, so one digit matches, two digits match when the first is 0..3,
\* and any longer run of digits does not match at all.  "" is None.
parse_requested_runway(token) ==
    LET d == token.digits
        matched == \/ Len(d) = 1
                   \/ Len(d) = 2 /\ d[1] <= 3
        num == IF Len(d) = 1 THEN d[1] ELSE 10 * d[1] + d[2]
    IN  IF ~matched THEN ""
        ELSE IF num < 1 \/ num > 36 THEN ""
        ELSE Format02d(num) \o Upper(token.side)

SeqToSet(s) == {s[i] : i \in 1..Len(s)}

\* runway_ends_for_action (the airport has no legacy landings/departures keys)
runway_ends_for_action(tower, action) ==
    CASE action = "landing" ->
            UNION {SeqToSet(tower.runways[i].landing_ends) : i \in 1..Len(tower.runways)}
      [] action \in {"takeoff", "taxi"} ->
            UNION {SeqToSet(tower.runways[i].takeoff_ends) : i \in 1..Len(tower.runways)}
      [] OTHER -> {}

\* physical_id_for_runway_end with every runway end a runway of its own.
physical_id_for_runway_end_per_end(tower, runway_end) == runway_end

\* physical_id_for_runway_end: the cached end map of build_runway_indexes
\* (a later runway record overwrites an earlier one for the same end);
\* "" is None.
physical_id_for_runway_end(tower, runway_end) ==
    LET hits == {i \in 1..Len(tower.runways) :
                    /\ tower.runways[i].physical_id # ""
                    /\ runway_end \in SeqToSet(tower.runways[i].landing_ends)
                                      \cup SeqToSet(tower.runways[i].takeoff_ends)}
    IN  IF hits = {} THEN ""
        ELSE tower.runways[CHOOSE i \in hits : \A j \in hits : j <= i].physical_id

\* choose_runway_for_action: the first runway record with an end for the
\* action; returns <<logical_runway_key, runway_end>>.
choose_runway_for_action(tower_cfg, action) ==
    LET ends(i) == CASE action = "landing" -> tower_cfg.runways[i].landing_ends
                     [] action = "takeoff" -> tower_cfg.runways[i].takeoff_ends
                     [] OTHER -> <<>>
        ok == {i \in 1..Len(tower_cfg.runways) : ends(i) # <<>>}
    IN  IF ok = {} THEN <<"DEFAULT", "">>
        ELSE LET i == CHOOSE k \in ok : \A j \in ok : k <= j
                 runway_end == ends(i)[1]
             IN  << IF tower_cfg.runways[i].physical_id # ""
                    THEN tower_cfg.runways[i].physical_id ELSE runway_end,
                    runway_end >>

\* RUNWAY_STATE[airport][runway] as the index of the slot, 0 when absent.
SlotIndex(RS, airport, runway) ==
    LET hit == {i \in 1..Len(RS) : RS[i].airport = airport /\ RS[i].runway = runway}
    IN  IF hit = {} THEN 0 ELSE CHOOSE i \in hit : TRUE

NewSlot(airport, runway) ==
    [airport |-> airport, runway |-> runway, active |-> None, queue |-> <<>>,
     expires_at |-> 0]

\* get_runway_state: the slot is created on first use.  A new slot comes
\* after the slots of its airport in the iteration order of the nested dict.
get_runway_state(RS, airport, runway) ==
    IF SlotIndex(RS, airport, runway) # 0 THEN RS
    ELSE LET same == {i \in 1..Len(RS) : RS[i].airport = airport}
             at == IF same = {} THEN Len(RS)
                   ELSE CHOOSE i \in same : \A j \in same : j <= i
         IN  SubSeq(RS, 1, at) \o <<NewSlot(airport, runway)>> \o SubSeq(RS, at + 1, Len(RS))

\* runway_active
runway_active(state, t) == state.active # None /\ t < state.expires_at

\* set_runway_active with expires_at = seconds, the clock left out.
set_runway_active_no_clock(state, entry, seconds, t) ==
    [state EXCEPT !.active = entry, !.expires_at = seconds]

\* set_runway_active
set_runway_active(state, entry, seconds, t) ==
    [state EXCEPT !.active = entry, !.expires_at = t + seconds]

\* clear_runway without the line state["active"] = None.
clear_runway_keeps_active(state) == [state EXCEPT !.expires_at = 0]

\* clear_runway
clear_runway(state) == [state EXCEPT !.active = None, !.expires_at = 0]

-----------------------------------------------------------------------------
(* The sweep *)

AutoClearText(entry) ==
    Reply("auto_clear", entry.action, entry.callsign, entry.runway, 0, entry.frequency,
          entry.sender)

\* The part of the loop body of process_runway_sequencing that expires the
\* active occupant of one slot.
sweep_expire(state, t) ==
    IF state.active # None /\ t >= state.expires_at THEN clear_runway(state) ELSE state

\* Whether the loop body pops the queue of a slot after sweep_expire.
sweep_promotes(state) == state.active = None /\ state.queue # <<>>

\* The pop with queue.pop(): the newest entry is promoted.
sweep_pop_last(state, t) ==
    set_runway_active([state EXCEPT !.queue = SubSeq(@, 1, Len(@) - 1)],
                      state.queue[Len(state.queue)],
                      OccupancyGet(state.queue[Len(state.queue)].action, 30), t)

\* The pop that leaves the promoted entry in the queue.
sweep_pop_peek(state, t) ==
    LET entry == Head(state.queue)
    IN  set_runway_active(state, entry, OccupancyGet(entry.action, 30), t)

\* The pop: queue.popleft() and set_runway_active with the entry's occupancy.
sweep_pop(state, t) ==
    LET entry == Head(state.queue)
    IN  set_runway_active([state EXCEPT !.queue = Tail(@)], entry,
                          OccupancyGet(entry.action, 30), t)

\* ACTIVE_FLIGHT_PLANS.pop(key, None) for an auto-cleared takeoff.
sweep_flight_plan(fp, entry) ==
    IF entry.action = "takeoff"
    THEN [k \in DOMAIN fp \ {<<entry.airport, Upper(entry.callsign)>>} |-> fp[k]]
    ELSE fp

\* The announcement passed through the transmit policy like a transmission
\* of a sender without identity.
sweep_announce_gated(chs, entry, t) ==
    IF can_transmit_on_frequency(entry.frequency, "")
    THEN store_message(get_channel(chs, entry.frequency, t), entry.frequency,
                       AutoClearText(entry), entry.sender)
    ELSE chs

\* The auto-cleared message is stored in the channel of the frequency the
\* entry was queued on; get_channel creates the channel when it is absent.
\* can_transmit_on_frequency is not consulted.
sweep_announce(chs, entry, t) ==
    store_message(get_channel(chs, entry.frequency, t), entry.frequency,
                  AutoClearText(entry), entry.sender)

\* The loop body on slot i, st being the slot after sweep_expire.
sweep_slot(S, i, t, st) ==
    IF ~sweep_promotes(st)
    THEN [S EXCEPT !.RUNWAY_STATE[i] = st]
    ELSE [S EXCEPT !.RUNWAY_STATE[i] = sweep_pop(st, t),
                   !.channels = sweep_announce(@, Head(st.queue), t),
                   !.ACTIVE_FLIGHT_PLANS = sweep_flight_plan(@, Head(st.queue)),
                   !.promoted = Append(@, Head(st.queue))]

\* The loop of process_runway_sequencing from slot i on.  S carries
\* RUNWAY_STATE, channels, ACTIVE_FLIGHT_PLANS and the entries promoted.
RECURSIVE sweep_from(_, _, _)
sweep_from(S, i, t) ==
    IF i > Len(S.RUNWAY_STATE) THEN S
    ELSE sweep_from(sweep_slot(S, i, t, sweep_expire(S.RUNWAY_STATE[i], t)), i + 1, t)

\* process_runway_sequencing
process_runway_sequencing(S, t) ==
    IF ~SeqGet("enabled", FALSE) THEN S
    ELSE IF ~SeqGet("auto_clear_next", FALSE) THEN S
    ELSE sweep_from(S, 1, t)

\* housekeeping
housekeeping(S, t) ==
    IF t < S.NEXT_HOUSEKEEP THEN S
    ELSE [S EXCEPT !.NEXT_HOUSEKEEP = t + HOUSEKEEP_MIN_INTERVAL,
                   !.channels = cleanup_expired_frequencies(@, t),
                   !.ACTIVE_EMERGENCIES = cleanup_stale_emergencies(@, t),
                   !.ACTIVE_FLIGHT_PLANS = cleanup_stale_flight_plans(@, t)]

-----------------------------------------------------------------------------
(* The router: handle_atc *)

\* A transmission text: the number of comma separated parts text.split(",", 2)
\* yields (0 for a text that is empty after strip()), the airport and
\* callsign parts, the phrase classes the request text contains, and its
\* runway token.
Text(parts, airport, callsign, words, rwy) ==
    [kind |-> "transmission", parts |-> parts, airport |-> airport,
     callsign |-> callsign, words |-> words, rwy |-> rwy]

\* callsign.lower().startswith(("heli", "helo", "h-"))
HeliCallsign(cs) == cs \in {"HELI1", "HELO1", "H-1"}

\* normalize_atc_message and the classification at the top of handle_atc.
atc_parse(text, sender_name) ==
    LET w == text.words
        etype == CASE "mayday" \in w -> "mayday"
                   [] "pan" \in w -> "pan"
                   [] "emergency" \in w -> "generic"
                   [] "possible_emergency" \in w -> "generic"
                   [] OTHER -> "none"
        cs == IF text.parts = 2 THEN sender_name
              ELSE IF text.callsign = "" THEN sender_name ELSE text.callsign
    IN  [airport_code      |-> IF text.parts < 2 THEN "" ELSE Upper(text.airport),
         callsign          |-> cs,
         emergency_type    |-> etype,
         has_emergency     |-> etype # "none",
         is_helicopter     |-> "helicopter" \in w \/ HeliCallsign(cs),
         requested_runway  |-> parse_requested_runway(text.rwy),
         is_ground_request |-> w \cap {"taxi", "startup"} # {},
         is_tower_request  |-> w \cap {"takeoff", "landing"} # {},
         is_startup        |-> "startup" \in w,
         is_flight_plan    |-> "flight_plan" \in w,
         words             |-> w]

\* effective_action of the trigger loop
effective_action(P, action) ==
    IF P.has_emergency /\ action \notin {"landing", "takeoff", "taxi"}
    THEN "landing" ELSE action

\* Whether templates_pool is non-empty for a matched action.
has_templates_pool(P, action) ==
    IF P.has_emergency /\ effective_action(P, action) = "landing"
    THEN HasTemplates("auto_clear.emergency_landing_clearance")
            \/ HasTemplates("responses.landing")
    ELSE HasTemplates("responses." \o effective_action(P, action))

\* The trigger loop: the first configured action with a phrase in the
\* request text and a non-empty template pool; "" when there is none.
match_action(P) ==
    LET hits == {i \in 1..Len(TRIGGER_PHRASES) :
                    /\ TRIGGER_PHRASES[i] \in P.words
                    /\ has_templates_pool(P, TRIGGER_PHRASES[i])}
    IN  IF hits = {} THEN ""
        ELSE TRIGGER_PHRASES[CHOOSE i \in hits : \A j \in hits : i <= j]

\* PILOT_ASSIGNED_RUNWAY[pilot_key] = runway
assign(PAR, pilot_key, runway) ==
    [k \in DOMAIN PAR \cup {pilot_key} |-> IF k = pilot_key THEN runway ELSE PAR[k]]

\* PILOT_ASSIGNED_RUNWAY.get(pilot_key), "" for None
assigned_runway(PAR, pilot_key) ==
    IF pilot_key \in DOMAIN PAR THEN PAR[pilot_key] ELSE ""

Selection(runway, logical, PAR) ==
    [runway |-> runway, logical_runway_id |-> logical, PAR |-> PAR]

\* Runway selection for a takeoff request without the reuse of the stored
\* assignment.
select_takeoff_no_reuse(PAR, tower, P, pilot_key) ==
    LET valid == runway_ends_for_action(tower, "takeoff")
        req == Upper(P.requested_runway)
        chosen == choose_runway_for_action(tower, "takeoff")
    IN  IF P.requested_runway # "" /\ req \in valid
        THEN Selection(req, physical_id_for_runway_end(tower, req),
                       assign(PAR, pilot_key, req))
        ELSE Selection(chosen[2], chosen[1],
                       IF chosen[2] # "" THEN assign(PAR, pilot_key, chosen[2]) ELSE PAR)

\* Runway selection for a takeoff request.
select_takeoff(PAR, tower, P, pilot_key) ==
    LET valid == runway_ends_for_action(tower, "takeoff")
        req == Upper(P.requested_runway)
        assigned == assigned_runway(PAR, pilot_key)
        chosen == choose_runway_for_action(tower, "takeoff")
    IN  IF P.requested_runway # "" /\ req \in valid
        THEN Selection(req, physical_id_for_runway_end(tower, req),
                       assign(PAR, pilot_key, req))
        ELSE IF assigned # "" /\ assigned \in valid
        THEN Selection(assigned, physical_id_for_runway_end(tower, assigned), PAR)
        ELSE Selection(chosen[2], chosen[1],
                       IF chosen[2] # "" THEN assign(PAR, pilot_key, chosen[2]) ELSE PAR)

\* Runway selection for a landing request.
select_landing(PAR, tower, P, pilot_key) ==
    LET valid == runway_ends_for_action(tower, "landing")
        req == Upper(P.requested_runway)
        chosen == choose_runway_for_action(tower, "landing")
    IN  IF P.requested_runway # "" /\ req \in valid
        THEN Selection(req, physical_id_for_runway_end(tower, req),
                       assign(PAR, pilot_key, req))
        ELSE Selection(chosen[2], chosen[1],
                       IF chosen[2] # "" THEN assign(PAR, pilot_key, chosen[2]) ELSE PAR)

\* Runway selection for a taxi request; rnd is the end random.choice draws.
select_taxi(PAR, tower, P, pilot_key, rnd) ==
    LET valid == runway_ends_for_action(tower, "taxi")
        req == Upper(P.requested_runway)
        assigned == assigned_runway(PAR, pilot_key)
        pick == IF valid = {} THEN ""
                ELSE IF rnd \in valid THEN rnd ELSE CHOOSE e \in valid : TRUE
    IN  IF P.requested_runway # "" /\ req \in valid
        THEN Selection(req, "", assign(PAR, pilot_key, req))
        ELSE IF assigned # "" /\ assigned \in valid
        THEN Selection(assigned, "", PAR)
        ELSE Selection(pick, "", IF pick # "" THEN assign(PAR, pilot_key, pick) ELSE PAR)

\* The runway selection block of the trigger loop (the airport has no
\* helipads, so a helicopter falls through to the runway logic).
select_runway(PAR, tower, P, action, pilot_key, rnd) ==
    CASE action = "takeoff" -> select_takeoff(PAR, tower, P, pilot_key)
      [] action = "landing" -> select_landing(PAR, tower, P, pilot_key)
      [] action = "taxi" -> select_taxi(PAR, tower, P, pilot_key, rnd)
      [] OTHER -> Selection("", "", PAR)

-----------------------------------------------------------------------------
(* Runway sequencing inside handle_atc *)

\* occupy
runway_occupancy(has_emergency, action) ==
    IF has_emergency /\ action = "landing"
    THEN OccupancyGet("emergency_landing", OccupancyGet(action, 60))
    ELSE OccupancyGet(action, 30)

\* position = len(state["queue"]): the queue length after the append.
hold_position_queue_length(queue) == Len(queue)

\* position = len(state["queue"]) + 1, taken after the append
hold_position(queue) == Len(queue) + 1

\* The hold branch with state["queue"].appendleft(entry).
queue_append_left(state, entry) == [state EXCEPT !.queue = <<entry>> \o @]

\* state["queue"].append(entry) of the hold branch
queue_append(state, entry) == [state EXCEPT !.queue = Append(@, entry)]

\* The emergency override with state["queue"].appendleft(active).
requeue_displaced_at_head(state) ==
    IF state.active # None /\ ~state.active.emergency
    THEN [state EXCEPT !.queue = <<state.active>> \o @]
    ELSE state

\* The emergency override requeueing whatever occupant it displaces.
requeue_displaced_any(state) ==
    IF state.active # None
    THEN [state EXCEPT !.queue = Append(@, state.active)]
    ELSE state

\* The emergency override: a non-emergency occupant goes to the tail of the
\* queue, an emergency occupant is dropped.
requeue_displaced(state) ==
    IF state.active # None /\ ~state.active.emergency
    THEN [state EXCEPT !.queue = Append(@, state.active)]
    ELSE state

\* The sequencing block with the position taken before the append.
sequence_request_position_first(state, entry, occupy, t) ==
    IF runway_active(state, t) /\ ~entry.emergency
    THEN [state |-> queue_append(state, entry),
          held |-> TRUE,
          position |-> hold_position(state.queue),
          active_is_emergency |-> state.active.emergency]
    ELSE [state |-> set_runway_active(
                        IF runway_active(state, t) THEN requeue_displaced(state)
                        ELSE state,
                        entry, occupy, t),
          held |-> FALSE,
          position |-> 0,
          active_is_emergency |-> state.active # None /\ state.active.emergency]

\* The sequencing block holding an emergency like any other request.
sequence_request_holds_emergency(state, entry, occupy, t) ==
    IF runway_active(state, t)
    THEN [state |-> queue_append(state, entry),
          held |-> TRUE,
          position |-> hold_position(queue_append(state, entry).queue),
          active_is_emergency |-> state.active.emergency]
    ELSE [state |-> set_runway_active(state, entry, occupy, t),
          held |-> FALSE,
          position |-> 0,
          active_is_emergency |-> state.active # None /\ state.active.emergency]

\* The sequencing block on the slot of the request: hold (queue the entry)
\* when the runway is active and the request is no emergency, else make the
\* entry the active occupant.
sequence_request(state, entry, occupy, t) ==
    IF runway_active(state, t) /\ ~entry.emergency
    THEN [state |-> queue_append(state, entry),
          held |-> TRUE,
          position |-> hold_position(queue_append(state, entry).queue),
          active_is_emergency |-> state.active.emergency]
    ELSE [state |-> set_runway_active(
                        IF runway_active(state, t) THEN requeue_displaced(state)
                        ELSE state,
                        entry, occupy, t),
          held |-> FALSE,
          position |-> 0,
          active_is_emergency |-> state.active # None /\ state.active.emergency]

\* record_emergency
record_emergency(em, airport_code, callsign, emergency_type, runway, t) ==
    LET key == <<Upper(airport_code), Upper(callsign)>>
        rec == [type |-> emergency_type, runway |-> runway, started_at |-> t]
    IN  [k \in DOMAIN em \cup {key} |-> IF k = key THEN rec ELSE em[k]]

\* The guard of the sequencing block without the helicopter test.
sequencing_applies_any_aircraft(P, role, action) ==
    /\ SeqGet("enabled", TRUE)
    /\ role = "tower"
    /\ action \in {"landing", "takeoff"}

\* The guard of the sequencing block.
sequencing_applies(P, role, action) ==
    /\ SeqGet("enabled", TRUE)
    /\ role = "tower"
    /\ action \in {"landing", "takeoff"}
    /\ ~P.is_helicopter

\* The guard of the invalid-runway override.
invalid_runway_override(P, tower, action, runway) ==
    /\ action \in {"landing", "takeoff"}
    /\ P.requested_runway # ""
    /\ ~P.is_helicopter
    /\ Upper(P.requested_runway) \notin runway_ends_for_action(tower, action)
    /\ runway # ""
    /\ HasTemplates("invalid_runway." \o action)

\* runway_key = logical_runway_id or runway or "DEFAULT"
runway_key_of(sel) ==
    IF sel.logical_runway_id # "" THEN sel.logical_runway_id
    ELSE IF sel.runway # "" THEN sel.runway ELSE "DEFAULT"

\* The reply of the trigger loop body once the runway is selected and the
\* request sequenced (seq); S is the state after both.
action_reply(S, P, tower, action, role, channel, sender_name, runway, applies, seq) ==
    IF applies /\ seq.held
    THEN [S EXCEPT !.reply =
            Reply(IF seq.active_is_emergency THEN "emergency_hold" ELSE "hold",
                  action, P.callsign, runway, seq.position, channel, sender_name)]
    ELSE IF invalid_runway_override(P, tower, action, runway)
    THEN [S EXCEPT !.reply =
            Reply("invalid_runway", action, P.callsign, runway, 0, channel, sender_name)]
    ELSE [S EXCEPT !.ACTIVE_FLIGHT_PLANS =
                        IF action = "takeoff" /\ role = "tower"
                        THEN [k \in DOMAIN @ \ {<<P.airport_code, Upper(P.callsign)>>} |-> @[k]]
                        ELSE @,
                   !.reply =
            Reply("clearance", effective_action(P, action), P.callsign, runway, 0,
                  channel, sender_name)]

\* The sequencing block: the slot of runway_key is fetched (and created when
\* absent), and the request is sequenced on it.
sequence_on_slot(S, t, P, tower, action, role, channel, sender_name, runway, RS, i, entry) ==
    action_reply([S EXCEPT !.RUNWAY_STATE =
                      [RS EXCEPT ![i] =
                          sequence_request(RS[i], entry,
                                           runway_occupancy(P.has_emergency, action), t).state]],
                 P, tower, action, role, channel, sender_name, runway, TRUE,
                 sequence_request(RS[i], entry, runway_occupancy(P.has_emergency, action), t))

NotSequenced == [held |-> FALSE, position |-> 0, active_is_emergency |-> FALSE]

\* The trigger loop body after runway selection (sel).
handle_selected(S, t, P, tower, action, role, channel, sender_name, sel) ==
    IF sequencing_applies(P, role, action)
    THEN sequence_on_slot(S, t, P, tower, action, role, channel, sender_name, sel.runway,
             get_runway_state(S.RUNWAY_STATE, P.airport_code, runway_key_of(sel)),
             SlotIndex(get_runway_state(S.RUNWAY_STATE, P.airport_code, runway_key_of(sel)),
                       P.airport_code, runway_key_of(sel)),
             [airport |-> P.airport_code, runway |-> sel.runway,
              callsign |-> P.callsign, action |-> action, frequency |-> channel,
              sender |-> sender_name, emergency |-> P.has_emergency])
    ELSE action_reply(S, P, tower, action, role, channel, sender_name, sel.runway, FALSE,
                      NotSequenced)

\* Emergency bookkeeping of the trigger loop body.
note_emergency(em, P, action, runway, t) ==
    IF P.has_emergency /\ action = "landing" /\ runway # ""
    THEN record_emergency(em, P.airport_code, P.callsign, P.emergency_type, runway, t)
    ELSE em

\* The trigger loop body with the runway selection made (sel).
handle_with_selection(S, t, P, tower, action, role, channel, sender_name, sel) ==
    handle_selected([S EXCEPT !.PILOT_ASSIGNED_RUNWAY = sel.PAR,
                              !.ACTIVE_EMERGENCIES =
                                    note_emergency(@, P, action, sel.runway, t)],
                    t, P, tower, action, role, channel, sender_name, sel)

\* The body of the trigger loop for the matched action.
handle_action(S, t, P, tower, action, role, channel, sender_name, rnd) ==
    handle_with_selection(S, t, P, tower, action, role, channel, sender_name,
        select_runway(S.PILOT_ASSIGNED_RUNWAY, tower, P, action,
                      <<P.airport_code, P.callsign>>, rnd))

\* role_handles with a hard-coded unknown reply when no unknown template is
\* configured.
role_handles_unknown_reply(S, t, P, tower, channel, rnd, role, sender_name, action) ==
    LET fpkey == <<P.airport_code, Upper(P.callsign)>>
    IN  IF P.is_flight_plan
        THEN [S EXCEPT !.ACTIVE_FLIGHT_PLANS =
                            [k \in DOMAIN @ \cup {fpkey} |-> IF k = fpkey THEN t ELSE @[k]],
                       !.reply = Reply("flight_plan", "", P.callsign, "", 0, channel,
                                       P.airport_code \o " ATC")]
        ELSE IF action # ""
        THEN handle_action(S, t, P, tower, action, role, channel, sender_name, rnd)
        ELSE IF P.has_emergency
        THEN [S EXCEPT !.reply = Reply("emergency_ack", "", P.callsign, "", 0, channel,
                                       sender_name)]
        ELSE [S EXCEPT !.reply = Reply("unknown", "", P.callsign, "", 0, channel,
                                       sender_name)]

\* handle_atc after role resolution: flight plans, the trigger loop and the
\* fallbacks.
role_handles(S, t, P, tower, channel, rnd, role, sender_name, action) ==
    LET fpkey == <<P.airport_code, Upper(P.callsign)>>
    IN  IF P.is_flight_plan
        THEN [S EXCEPT !.ACTIVE_FLIGHT_PLANS =
                            [k \in DOMAIN @ \cup {fpkey} |-> IF k = fpkey THEN t ELSE @[k]],
                       !.reply = Reply("flight_plan", "", P.callsign, "", 0, channel,
                                       P.airport_code \o " ATC")]
        ELSE IF action # ""
        THEN handle_action(S, t, P, tower, action, role, channel, sender_name, rnd)
        ELSE IF P.has_emergency
        THEN [S EXCEPT !.reply = Reply("emergency_ack", "", P.callsign, "", 0, channel,
                                       sender_name)]
        ELSE IF HasTemplates("unknown." \o role) \/ HasTemplates("unknown.default")
        THEN [S EXCEPT !.reply = Reply("unknown", "", P.callsign, "", 0, channel,
                                       sender_name)]
        ELSE [S EXCEPT !.reply = NoReply]

\* Role resolution: ground on a distinct ground frequency, else tower.
handle_in_role(S, t, P, tower, channel, rnd) ==
    IF channel = tower.ground_frequency /\ tower.ground_frequency # tower.tower_frequency
    THEN role_handles(S, t, P, tower, channel, rnd, "ground", tower.ground_sender,
                      match_action(P))
    ELSE role_handles(S, t, P, tower, channel, rnd, "tower", tower.tower_sender,
                      match_action(P))

\* The reply to a transmission on a frequency that is neither the tower nor
\* the ground frequency of the airport, without an emergency.
wrong_frequency_reply(P, tower) ==
    IF ~HasTemplates("redirects.wrong_airport_frequency") THEN NoReply
    ELSE IF P.is_tower_request /\ ~P.is_flight_plan
    THEN Reply("wrong_frequency", "", P.callsign, "", 0, tower.tower_frequency,
               tower.tower_sender)
    ELSE IF P.is_ground_request /\ ~P.is_flight_plan
    THEN Reply("wrong_frequency", "", P.callsign, "", 0, tower.ground_frequency,
               tower.ground_sender)
    ELSE NoReply

\* route with the redirects skipped for an emergency, as the wrong-frequency
\* check is.
route_emergency_bypass(S, t, P, tower, channel, rnd) ==
    IF /\ P.is_ground_request /\ ~P.has_emergency
       /\ tower.tower_frequency # tower.ground_frequency
       /\ channel = tower.tower_frequency
    THEN [S EXCEPT !.reply =
            IF HasTemplates("redirects.tower_to_ground")
                \/ (P.is_startup /\ HasTemplates("redirects.startup_tower_to_ground"))
            THEN Reply("redirect", "", P.callsign, "", 0, tower.ground_frequency,
                       tower.tower_sender)
            ELSE NoReply]
    ELSE IF /\ P.is_tower_request /\ ~P.has_emergency
            /\ tower.tower_frequency # tower.ground_frequency
            /\ channel = tower.ground_frequency
    THEN [S EXCEPT !.reply =
            IF HasTemplates("redirects.ground_to_tower")
            THEN Reply("redirect", "", P.callsign, "", 0, tower.tower_frequency,
                       tower.ground_sender)
            ELSE NoReply]
    ELSE IF channel \notin {tower.tower_frequency, tower.ground_frequency}
            /\ ~P.has_emergency
    THEN [S EXCEPT !.reply = wrong_frequency_reply(P, tower)]
    ELSE handle_in_role(S, t, P, tower, channel, rnd)

\* route with the wrong-frequency reply given to emergencies as well.
route_no_emergency_bypass(S, t, P, tower, channel, rnd) ==
    IF /\ P.is_ground_request
       /\ tower.tower_frequency # tower.ground_frequency
       /\ channel = tower.tower_frequency
    THEN [S EXCEPT !.reply =
            IF HasTemplates("redirects.tower_to_ground")
                \/ (P.is_startup /\ HasTemplates("redirects.startup_tower_to_ground"))
            THEN Reply("redirect", "", P.callsign, "", 0, tower.ground_frequency,
                       tower.tower_sender)
            ELSE NoReply]
    ELSE IF /\ P.is_tower_request
            /\ tower.tower_frequency # tower.ground_frequency
            /\ channel = tower.ground_frequency
    THEN [S EXCEPT !.reply =
            IF HasTemplates("redirects.ground_to_tower")
            THEN Reply("redirect", "", P.callsign, "", 0, tower.tower_frequency,
                       tower.ground_sender)
            ELSE NoReply]
    ELSE IF channel \notin {tower.tower_frequency, tower.ground_frequency}
    THEN [S EXCEPT !.reply = wrong_frequency_reply(P, tower)]
    ELSE handle_in_role(S, t, P, tower, channel, rnd)

\* handle_atc once the text is parsed (P) and the airport is known.
route(S, t, P, tower, channel, rnd) ==
    IF /\ P.is_ground_request
       /\ tower.tower_frequency # tower.ground_frequency
       /\ channel = tower.tower_frequency
    THEN [S EXCEPT !.reply =
            IF HasTemplates("redirects.tower_to_ground")
                \/ (P.is_startup /\ HasTemplates("redirects.startup_tower_to_ground"))
            THEN Reply("redirect", "", P.callsign, "", 0, tower.ground_frequency,
                       tower.tower_sender)
            ELSE NoReply]
    ELSE IF /\ P.is_tower_request
            /\ tower.tower_frequency # tower.ground_frequency
            /\ channel = tower.ground_frequency
    THEN [S EXCEPT !.reply =
            IF HasTemplates("redirects.ground_to_tower")
            THEN Reply("redirect", "", P.callsign, "", 0, tower.tower_frequency,
                       tower.ground_sender)
            ELSE NoReply]
    ELSE IF channel \notin {tower.tower_frequency, tower.ground_frequency}
            /\ ~P.has_emergency
    THEN [S EXCEPT !.reply = wrong_frequency_reply(P, tower)]
    ELSE handle_in_role(S, t, P, tower, channel, rnd)

\* handle_atc with the text parsed (P).
handle_parsed(S, t, text, channel, rnd, P) ==
    IF text.parts < 2 \/ P.airport_code = "" THEN [S EXCEPT !.reply = NoReply]
    ELSE IF P.airport_code \notin DOMAIN ATC_TOWERS THEN [S EXCEPT !.reply = NoReply]
    ELSE route(S, t, P, ATC_TOWERS[P.airport_code], channel, rnd)

\* handle_atc
handle_atc(S, t, text, channel, sender_name, rnd) ==
    handle_parsed(S, t, text, channel, rnd, atc_parse(text, sender_name))

-----------------------------------------------------------------------------
(* Request handlers *)

\* The shared state a handler works on, with what it returns.
State ==
    [channels |-> channels, RUNWAY_STATE |-> RUNWAY_STATE,
     PILOT_ASSIGNED_RUNWAY |-> PILOT_ASSIGNED_RUNWAY,
     ACTIVE_EMERGENCIES |-> ACTIVE_EMERGENCIES,
     ACTIVE_FLIGHT_PLANS |-> ACTIVE_FLIGHT_PLANS,
     NEXT_HOUSEKEEP |-> NEXT_HOUSEKEEP,
     promoted |-> <<>>, reply |-> NoReply, status |-> 0, id |-> 0, messages |-> <<>>]

Commit(S) ==
    /\ channels' = S.channels
    /\ RUNWAY_STATE' = S.RUNWAY_STATE
    /\ PILOT_ASSIGNED_RUNWAY' = S.PILOT_ASSIGNED_RUNWAY
    /\ ACTIVE_EMERGENCIES' = S.ACTIVE_EMERGENCIES
    /\ ACTIVE_FLIGHT_PLANS' = S.ACTIVE_FLIGHT_PLANS
    /\ NEXT_HOUSEKEEP' = S.NEXT_HOUSEKEEP

Request(frequency, text, sender, sender_uuid) ==
    [frequency |-> frequency, text |-> text, sender |-> sender,
     sender_uuid |-> sender_uuid]

\* The query of a /fetch: no text, the frequency alone.
Query(frequency) == Request(frequency, Text(0, "", "", {}, NoRunwayToken), "", "")

\* What the last request returned: the operation, the request, since_id of a
\* /fetch, the HTTP status, the id returned by /send, the controller reply
\* handle_atc produced, the messages returned by /fetch and the entries the
\* request's sweep promoted (each announced by an auto-cleared message);
\* repeat tells whether the request before it was the same request.
Out(op, req, since_id, status, id, reply, messages, promoted, repeat) ==
    [op |-> op, req |-> req, since_id |-> since_id, status |-> status,
     id |-> id, reply |-> reply, messages |-> messages, promoted |-> promoted,
     repeat |-> repeat]

\* The start of send_message and fetch_messages: housekeeping() and
\* process_runway_sequencing().
sweeps(S, t) == process_runway_sequencing(housekeeping(S, t), t)

\* The end of send_message: the reply of handle_atc, if any, is stored in
\* the channel of the transmission.
store_reply(S, frequency) ==
    IF S.reply # NoReply
    THEN [S EXCEPT !.channels = store_message(@, frequency, S.reply, S.reply.sender)]
    ELSE S

\* send_message after the sweeps, for an accepted transmission: the message
\* is stored, handle_atc runs, and its reply is stored in the same channel.
send_accepted(S, t, req, rnd) ==
    store_reply(
        handle_atc([S EXCEPT !.channels =
                        store_message(get_channel(@, req.frequency, t), req.frequency,
                                      req.text, req.sender)],
                   t, req.text, req.frequency, req.sender, rnd),
        req.frequency)

\* The id returned taken from next_id after the transmission is stored.
assigned_id_after_store(chs, frequency) ==
    IF frequency \in DOMAIN chs THEN chs[frequency].next_id + 1 ELSE 2

\* msg["id"]: the next_id of the channel when the transmission is stored.
assigned_id(chs, frequency) ==
    IF frequency \in DOMAIN chs THEN chs[frequency].next_id ELSE 1

\* send_message with the policy check after the message is stored.
send_after_sweeps_store_first(S, t, req, rnd) ==
    IF req.text.parts = 0
    THEN [S EXCEPT !.reply = NoReply, !.status = 400]
    ELSE IF ~can_transmit_on_frequency(req.frequency, req.sender_uuid)
    THEN [S EXCEPT !.channels = store_message(get_channel(@, req.frequency, t),
                                              req.frequency, req.text, req.sender),
                   !.reply = NoReply, !.status = 403]
    ELSE [send_accepted(S, t, req, rnd) EXCEPT
                !.status = 200, !.id = assigned_id(S.channels, req.frequency)]

\* send_message with get_channel called before the text is validated.
send_after_sweeps_channel_first(S, t, req, rnd) ==
    IF req.text.parts = 0
    THEN [S EXCEPT !.channels = get_channel(@, req.frequency, t),
                   !.reply = NoReply, !.status = 400]
    ELSE IF ~can_transmit_on_frequency(req.frequency, req.sender_uuid)
    THEN [S EXCEPT !.reply = NoReply, !.status = 403]
    ELSE [send_accepted(S, t, req, rnd) EXCEPT
                !.status = 200, !.id = assigned_id(S.channels, req.frequency)]

\* send_message after the sweeps (S).
send_after_sweeps(S, t, req, rnd) ==
    IF req.text.parts = 0
    THEN [S EXCEPT !.reply = NoReply, !.status = 400]
    ELSE IF ~can_transmit_on_frequency(req.frequency, req.sender_uuid)
    THEN [S EXCEPT !.reply = NoReply, !.status = 403]
    ELSE [send_accepted(S, t, req, rnd) EXCEPT
                !.status = 200, !.id = assigned_id(S.channels, req.frequency)]

\* send_message
send_message(S, t, req, rnd) == send_after_sweeps(sweeps(S, t), t, req, rnd)

\* fetch_messages handing the messages over: what it returns is removed
\* from the channel.
fetch_after_sweeps_draining(S, t, frequency, since_id) ==
    IF frequency \notin DOMAIN S.channels
    THEN [S EXCEPT !.messages = <<>>, !.status = 200]
    ELSE [S EXCEPT !.channels =
                        [get_channel(@, frequency, t) EXCEPT ![frequency].messages =
                            SelectSeq(@, LAMBDA m : ~(m.id > since_id))],
                   !.messages =
                        messages_since(get_channel(S.channels, frequency, t)[frequency].messages,
                                       since_id),
                   !.status = 200]

\* fetch_messages without the early return for an unknown frequency:
\* get_channel creates the channel.
fetch_after_sweeps_creating(S, t, frequency, since_id) ==
    [S EXCEPT !.channels = get_channel(@, frequency, t),
              !.messages =
                    messages_since(get_channel(S.channels, frequency, t)[frequency].messages,
                                   since_id),
              !.status = 200]

\* fetch_messages after the sweeps (S).
fetch_after_sweeps(S, t, frequency, since_id) ==
    IF frequency \notin DOMAIN S.channels
    THEN [S EXCEPT !.messages = <<>>, !.status = 200]
    ELSE [S EXCEPT !.channels = get_channel(@, frequency, t),
                   !.messages =
                        messages_since(get_channel(S.channels, frequency, t)[frequency].messages,
                                       since_id),
                   !.status = 200]

\* fetch_messages
fetch_messages(S, t, frequency, since_id) ==
    fetch_after_sweeps(sweeps(S, t), t, frequency, since_id)

\* The handler's effect on the shared state and what it returned.
Done(op, req, since_id, S) ==
    /\ Commit(S)
    /\ out' = Out(op, req, since_id, S.status, S.id, S.reply, S.messages, S.promoted,
                   out.op = op /\ out.req = req /\ out.since_id = since_id)

\* POST /send
Send(req, rnd, cap) ==
    /\ req.frequency \in DOMAIN channels => channels[req.frequency].next_id <= cap
    /\ \E S \in {send_message(State, now, req, rnd)} : Done("send", req, 0, S)
    /\ UNCHANGED <<now, SEQUENCING, concVars>>

\* GET /fetch
Fetch(frequency, since_id) ==
    /\ \E S \in {fetch_messages(State, now, frequency, since_id)} :
            Done("fetch", Query(frequency), since_id, S)
    /\ UNCHANGED <<now, SEQUENCING, concVars>>

\* The clock advances between requests.
Tick(d, cap) ==
    /\ now + d <= cap
    /\ now' = now + d
    /\ UNCHANGED <<SEQUENCING, seqVars, concVars>>

-----------------------------------------------------------------------------
(* Specification of sequential request handling on the tower frequency *)

\* "ABCD, , <words>": the callsign part is empty, so the sender's name is
\* the callsign.
Plain(words) == Text(3, "ABCD", "", words, NoRunwayToken)

\* "ABCD, , <words> runway <digits>"
Naming(words, digits) == Text(3, "ABCD", "", words, RunwayToken(digits, ""))

\* The transmissions sent in Spec: pilots N1, N2, N3 on the tower frequency;
\* runway 5 is no end of the airport, runway 36 is the takeoff end of RWY2.
SpecRequests ==
    { Request(120, Plain({"takeoff"}), "N1", "u1"),
      Request(120, Naming({"takeoff"}, <<5>>), "N1", "u1"),
      Request(120, Plain({"takeoff"}), "N2", "u2"),
      Request(120, Naming({"takeoff"}, <<3, 6>>), "N2", "u2"),
      Request(120, Plain({"landing"}), "N3", "u3"),
      Request(120, Plain({"landing", "mayday"}), "N3", "u3") }

\* No request thread is running.
Handlers == {1, 2}

\* granted: the calls of set_runway_active the thread has made.
Idle ==
    [pc |-> "idle", entry |-> None, state |-> 0, active |-> None, todo |-> {},
     granted |-> {}]

InitState ==
    /\ objects = <<>>
    /\ slot_of = <<>>
    /\ handler = [h \in Handlers |-> Idle]
    /\ arrivals = 0
    /\ now = 0
    /\ channels = <<>>
    /\ RUNWAY_STATE = <<>>
    /\ PILOT_ASSIGNED_RUNWAY = <<>>
    /\ ACTIVE_EMERGENCIES = <<>>
    /\ ACTIVE_FLIGHT_PLANS = <<>>
    /\ NEXT_HOUSEKEEP = 0
    /\ out = Out("init", Query(0), 0, 0, 0, NoReply, <<>>, <<>>, FALSE)

Init ==
    /\ InitState
    /\ SEQUENCING = [enabled |-> "true", auto_clear_next |-> "true"]

SendStep == \E req \in SpecRequests : Send(req, "27", MaxId)

FetchStep == \E f \in {120, 121}, since_id \in {0, 2} : Fetch(f, since_id)

TickStep == Tick(1, MaxTime)

Next == SendStep \/ FetchStep \/ TickStep

Spec == Init /\ [][Next]_vars

-----------------------------------------------------------------------------
(* SpecBus: the message bus filled past its capacity *)

\* Chat on the default frequency (no comma: handle_atc answers nothing) and a
\* taxi request on the tower frequency, which the tower answers with a
\* redirect: one and two messages a send.
BusRequests ==
    { Request(DEFAULT_FREQUENCY, Text(1, "", "", {}, NoRunwayToken), "N1", "u1"),
      Request(120, Plain({"taxi"}), "N1", "u1") }

BusSend == \E req \in BusRequests : Send(req, "27", BusMaxId)

BusFetch == \E f \in {DEFAULT_FREQUENCY, 120} : Fetch(f, MAX_MESSAGES)

NextBus == BusSend \/ BusFetch

SpecBus == Init /\ [][NextBus]_vars

-----------------------------------------------------------------------------
(* SpecLive: the clock keeps advancing and clients keep polling /fetch, with
   sequencing enabled and the sweep switched on or off.  Finitely many transmissions are
   sent, all of them early.  The clock has no bound: once now has reached
   LiveMaxTime, a second passing is written as every timestamp of the state
   moving one second into the past while now stays.  The code compares
   timestamps with the clock only (now >= expires_at, now - last_active >
   TTL, now < _NEXT_HOUSEKEEP), so this is the same state, up to timestamps
   that are more than LiveMaxTime old: those stay at 0, which leaves an
   expired occupancy expired and keeps the TTL clean-ups of housekeeping, of
   1800 s and more, from firing. *)

Earlier(x) == IF x > 0 THEN x - 1 ELSE 0

\* One second passes at now = LiveMaxTime.
Slide ==
    /\ now = LiveMaxTime
    /\ channels' = [f \in DOMAIN channels |->
                        [channels[f] EXCEPT !.last_active = Earlier(@)]]
    /\ RUNWAY_STATE' = [i \in 1..Len(RUNWAY_STATE) |->
                            [RUNWAY_STATE[i] EXCEPT !.expires_at = Earlier(@)]]
    /\ ACTIVE_EMERGENCIES' = [k \in DOMAIN ACTIVE_EMERGENCIES |->
                                [ACTIVE_EMERGENCIES[k] EXCEPT !.started_at = Earlier(@)]]
    /\ ACTIVE_FLIGHT_PLANS' = [k \in DOMAIN ACTIVE_FLIGHT_PLANS |->
                                Earlier(ACTIVE_FLIGHT_PLANS[k])]
    /\ NEXT_HOUSEKEEP' = Earlier(NEXT_HOUSEKEEP)
    /\ UNCHANGED <<now, SEQUENCING, PILOT_ASSIGNED_RUNWAY, out, concVars>>

\* sequencing.auto_clear_next as set in atc_config.json
Switch == {"true", "false"}

InitLive ==
    /\ InitState
    /\ SEQUENCING \in [enabled : {"true"}, auto_clear_next : Switch]

LiveRequests ==
    { Request(120, Plain({"takeoff"}), "N1", "u1"),
      Request(120, Plain({"takeoff"}), "N2", "u2"),
      Request(120, Plain({"landing", "mayday"}), "N3", "u3") }

LiveSend ==
    /\ now <= LiveSendBy
    /\ \E req \in LiveRequests : Send(req, "27", LiveMaxId)

LiveFetch == Fetch(120, 0)

LiveTick == Tick(1, LiveMaxTime) \/ Slide

NextLive == LiveSend \/ LiveFetch \/ LiveTick

SpecLive ==
    InitLive /\ [][NextLive]_vars /\ WF_vars(LiveTick) /\ WF_vars(LiveFetch)

-----------------------------------------------------------------------------
(* SpecConc: request threads interleaved statement by statement.  The server
   runs a handler per request thread and takes no lock, so a thread can be
   preempted between any two statements.  The threads handle landing and
   takeoff requests for ABCD on its tower frequency; the statements modelled
   are those of the handler that touch RUNWAY_STATE: the sweep of
   process_runway_sequencing, get_runway_state and the sequencing block of
   handle_atc.  Each step below is a stretch of one thread that runs without
   preemption.  A thread remembers the occupancies it has granted, by the
   sweep or by the sequencing block, until it returns. *)

\* One call of set_runway_active(state, entry, occupy): by is "sweep" or
\* "request".
Grant(by, state, entry, expires_at) ==
    [by |-> by, state |-> state, entry |-> entry, expires_at |-> expires_at]

\* entry, as the sequencing block builds it for a request without a runway.
ConcEntry(callsign, action, emergency) ==
    [airport |-> "ABCD",
     runway |-> choose_runway_for_action(ATC_TOWERS["ABCD"], action)[2],
     callsign |-> callsign, action |-> action, frequency |-> 120,
     sender |-> ATC_TOWERS["ABCD"].tower_sender, emergency |-> emergency]

ConcEntries ==
    { ConcEntry("N1", "takeoff", FALSE), ConcEntry("N2", "takeoff", FALSE),
      ConcEntry("N3", "landing", TRUE) }

\* (airport_code, runway_key) of the request of entry
ConcKey(entry) ==
    <<entry.airport, choose_runway_for_action(ATC_TOWERS[entry.airport], entry.action)[1]>>

\* The slot dicts RUNWAY_STATE holds when the loop of the sweep starts; none
\* when the sweep is switched off.
SweepTargets ==
    IF SeqGet("enabled", FALSE) /\ SeqGet("auto_clear_next", FALSE)
    THEN {slot_of[k] : k \in DOMAIN slot_of}
    ELSE {}

\* A thread takes up a request: send_message starts.
ArriveUpTo(h, entry, cap) ==
    /\ handler[h].pc = "idle"
    /\ arrivals < cap
    /\ arrivals' = arrivals + 1
    /\ handler' = [handler EXCEPT ![h] = [Idle EXCEPT !.pc = "sweep", !.entry = entry,
                                                      !.todo = SweepTargets]]
    /\ UNCHANGED <<now, SEQUENCING, seqVars, objects, slot_of>>

Arrive(h, entry) == ArriveUpTo(h, entry, ConcMaxRequests)

\* The loop body of process_runway_sequencing on one slot dict, up to the
\* test `if not state["active"] and state["queue"]`.
SweepSlot(h, o) ==
    /\ handler[h].pc = "sweep"
    /\ o \in handler[h].todo
    /\ objects' = [objects EXCEPT ![o] = sweep_expire(@, now)]
    /\ handler' = [handler EXCEPT
                      ![h].todo = @ \ {o},
                      ![h].state = o,
                      ![h].pc = IF sweep_promotes(sweep_expire(objects[o], now))
                                THEN "pop" ELSE "sweep"]
    /\ UNCHANGED <<now, SEQUENCING, seqVars, slot_of, arrivals>>

\* entry = state["queue"].popleft() and set_runway_active(state, entry,
\* occupy), with the announcement.  popleft on a queue another thread has
\* emptied since the test raises IndexError, which ends the request.
SweepPop(h) ==
    /\ handler[h].pc = "pop"
    /\ IF objects[handler[h].state].queue = <<>>
       THEN /\ handler' = [handler EXCEPT ![h] = Idle]
            /\ UNCHANGED objects
       ELSE /\ objects' = [objects EXCEPT ![handler[h].state] = sweep_pop(@, now)]
            /\ handler' = [handler EXCEPT
                  ![h].pc = "sweep",
                  ![h].granted = @ \cup
                      {Grant("sweep", handler[h].state,
                             Head(objects[handler[h].state].queue),
                             sweep_pop(objects[handler[h].state], now).expires_at)}]
    /\ UNCHANGED <<now, SEQUENCING, seqVars, slot_of, arrivals>>

\* The loop is over; handle_atc reaches the sequencing block.  A thread
\* without an entry runs fetch_messages, which has no sequencing block.
SweepDone(h) ==
    /\ handler[h].pc = "sweep"
    /\ handler[h].todo = {}
    /\ handler' = [handler EXCEPT ![h].pc = IF handler[h].entry = None THEN "return"
                                            ELSE "get"]
    /\ UNCHANGED <<now, SEQUENCING, seqVars, objects, slot_of, arrivals>>

\* get_runway_state: state = airport_state.get(runway)
Get(h) ==
    /\ handler[h].pc = "get"
    /\ handler' = [handler EXCEPT
                      ![h].state = IF ConcKey(handler[h].entry) \in DOMAIN slot_of
                                   THEN slot_of[ConcKey(handler[h].entry)] ELSE 0,
                      ![h].pc = IF ConcKey(handler[h].entry) \in DOMAIN slot_of
                                THEN "check" ELSE "create"]
    /\ UNCHANGED <<now, SEQUENCING, seqVars, objects, slot_of, arrivals>>

\* get_runway_state: if not state, a new dict is made and stored.
Create(h) ==
    /\ handler[h].pc = "create"
    /\ objects' = Append(objects, NewSlot(ConcKey(handler[h].entry)[1],
                                          ConcKey(handler[h].entry)[2]))
    /\ slot_of' = [k \in DOMAIN slot_of \cup {ConcKey(handler[h].entry)} |->
                      IF k = ConcKey(handler[h].entry) THEN Len(objects) + 1
                      ELSE slot_of[k]]
    /\ handler' = [handler EXCEPT ![h].state = Len(objects) + 1, ![h].pc = "check"]
    /\ UNCHANGED <<now, SEQUENCING, seqVars, arrivals>>

\* active = state.get("active"), and the tests runway_active(state) and
\* has_emergency.
Check(h) ==
    /\ handler[h].pc = "check"
    /\ handler' = [handler EXCEPT
                      ![h].active = objects[handler[h].state].active,
                      ![h].pc = IF ~runway_active(objects[handler[h].state], now) THEN "set"
                                ELSE IF handler[h].entry.emergency THEN "displace"
                                ELSE "hold"]
    /\ UNCHANGED <<now, SEQUENCING, seqVars, objects, slot_of, arrivals>>

\* state["queue"].append(entry), and the hold reply
Hold(h) ==
    /\ handler[h].pc = "hold"
    /\ objects' = [objects EXCEPT ![handler[h].state] = queue_append(@, handler[h].entry)]
    /\ handler' = [handler EXCEPT ![h].pc = "return"]
    /\ UNCHANGED <<now, SEQUENCING, seqVars, slot_of, arrivals>>

\* if active and not active_is_emergency: state["queue"].append(active)
Displace(h) ==
    /\ handler[h].pc = "displace"
    /\ objects' = [objects EXCEPT ![handler[h].state] =
                      IF handler[h].active # None /\ ~handler[h].active.emergency
                      THEN queue_append(@, handler[h].active) ELSE @]
    /\ handler' = [handler EXCEPT ![h].pc = "set"]
    /\ UNCHANGED <<now, SEQUENCING, seqVars, slot_of, arrivals>>

\* set_runway_active(state, entry, occupy)
SetActive(h) ==
    /\ handler[h].pc = "set"
    /\ objects' = [objects EXCEPT ![handler[h].state] =
                      set_runway_active(@, handler[h].entry,
                                        runway_occupancy(handler[h].entry.emergency,
                                                         handler[h].entry.action),
                                        now)]
    /\ handler' = [handler EXCEPT
                      ![h].pc = "return",
                      ![h].granted = @ \cup
                          {Grant("request", handler[h].state, handler[h].entry,
                                 now + runway_occupancy(handler[h].entry.emergency,
                                                        handler[h].entry.action))}]
    /\ UNCHANGED <<now, SEQUENCING, seqVars, slot_of, arrivals>>

\* The reply is built and the handler returns: its locals are gone.
Return(h) ==
    /\ handler[h].pc = "return"
    /\ handler' = [handler EXCEPT ![h] = Idle]
    /\ UNCHANGED <<now, SEQUENCING, seqVars, objects, slot_of, arrivals>>

ConcTick ==
    /\ now < ConcMaxTime
    /\ now' = now + 1
    /\ UNCHANGED <<SEQUENCING, seqVars, concVars>>

HandlerStep(h) ==
    \/ \E entry \in ConcEntries : Arrive(h, entry)
    \/ \E o \in 1..Len(objects) : SweepSlot(h, o)
    \/ SweepPop(h)
    \/ SweepDone(h)
    \/ Get(h)
    \/ Create(h)
    \/ Check(h)
    \/ Hold(h)
    \/ Displace(h)
    \/ SetActive(h)
    \/ Return(h)

NextConc == ConcTick \/ \E h \in Handlers : HandlerStep(h)

SpecConc == Init /\ [][NextConc]_vars

-----------------------------------------------------------------------------
(* SpecConcSweep: sweeps of concurrent request threads.  The threads of
   SpecConc take up takeoff requests of N1 and N2 for ABCD at time 0 and
   polls of /fetch once the first occupancy has run out; a poll runs the
   sweep and touches RUNWAY_STATE no further. *)

RaceEntries == {ConcEntry("N1", "takeoff", FALSE), ConcEntry("N2", "takeoff", FALSE)}

RaceSend(h) ==
    /\ now = 0
    /\ \E entry \in RaceEntries : ArriveUpTo(h, entry, RaceMaxSends)

RaceFetch(h) ==
    /\ now >= runway_occupancy(FALSE, "takeoff")
    /\ ArriveUpTo(h, None, RaceMaxSends + RaceMaxFetches)

RaceStep(h) ==
    \/ RaceSend(h)
    \/ RaceFetch(h)
    \/ \E o \in 1..Len(objects) : SweepSlot(h, o)
    \/ SweepPop(h)
    \/ SweepDone(h)
    \/ Get(h)
    \/ Create(h)
    \/ Check(h)
    \/ Hold(h)
    \/ SetActive(h)
    \/ Return(h)

NextConcSweep == ConcTick \/ \E h \in Handlers : RaceStep(h)

SpecConcSweep == Init /\ [][NextConcSweep]_vars

-----------------------------------------------------------------------------
(* SpecRoute: the routing decisions of handle_atc.  Transmissions reach the
   tower and the ground frequency of ABCD: runway requests with and without a
   runway named, ground requests on the tower frequency and tower requests
   on the ground frequency, with and without an emergency, a transmission
   for an airport that is not configured and one without any trigger
   phrase. *)

\* "ZZZZ, , <words>": no airport ZZZZ is configured.
Elsewhere(words) == Text(3, "ZZZZ", "", words, NoRunwayToken)

\* Runway 5 parses to "05", which is no end of ABCD; "runway 99" is no match
\* of RUNWAY_RE.
RouteRequests ==
    { Request(120, Plain({"takeoff"}), "N1", "u1"),
      Request(120, Naming({"takeoff"}, <<5>>), "N2", "u2"),
      Request(120, Naming({"landing"}, <<9, 9>>), "N3", "u3"),
      Request(120, Plain({"taxi", "mayday"}), "N2", "u2"),
      Request(121, Plain({"takeoff"}), "N2", "u2"),
      Request(121, Plain({"landing", "mayday"}), "N3", "u3"),
      Request(120, Elsewhere({"takeoff"}), "N1", "u1"),
      Request(120, Plain({}), "N1", "u1"),
      Request(120, Plain({"mayday"}), "N3", "u3") }

RouteSend == \E req \in RouteRequests : Send(req, "27", RouteMaxId)

RouteTick == Tick(1, RouteMaxTime)

NextRoute == RouteSend \/ RouteTick

SpecRoute == Init /\ [][NextRoute]_vars

-----------------------------------------------------------------------------
(* SpecGate: the validation and the transmit policy of send_message.  Chat
   is sent on the dedicated frequencies 900 (server_only), 901
   (whitelist_uuid) and 902 (open), an empty text on the tower frequency,
   and two takeoff requests keep the sweep busy. *)

\* A text without a comma: chat, to which handle_atc answers nothing.
Chat == Text(1, "", "", {}, NoRunwayToken)

\* text.strip() is empty
Empty == Text(0, "", "", {}, NoRunwayToken)

\* sender_uuid is "" when the request carries none.
GateRequests ==
    { Request(120, Plain({"takeoff"}), "N1", "u1"),
      Request(120, Plain({"takeoff"}), "N2", "u2"),
      Request(120, Empty, "N2", "u2") }

GateChat ==
    { Request(900, Chat, "N1", "u1"),
      Request(901, Chat, "N1", "u1"),
      Request(901, Chat, "N2", "u2"),
      Request(901, Chat, "N3", ""),
      Request(901, Empty, "N1", "u1"),
      Request(902, Chat, "N2", "u2") }

GateSend ==
    \/ \E req \in GateRequests : Send(req, "27", GateMaxId)
    \/ \E req \in GateChat : Send(req, "27", GateMaxChat)

GateTick == Tick(1, GateMaxTime)

NextGate == GateSend \/ GateTick

SpecGate == Init /\ [][NextGate]_vars

-----------------------------------------------------------------------------
(* SpecExpiry: channels left idle for FREQUENCY_EXPIRE_SECONDS and longer.
   The clock advances in steps of half that window, so that a channel is
   found idle for exactly the window and for more.  Chat is sent on the
   default frequency and on frequency 17. *)

ExpiryStep == FREQUENCY_EXPIRE_SECONDS \div 2

ExpirySend ==
    \E sender \in {"N1", "N2"}, f \in {DEFAULT_FREQUENCY, 17} :
        Send(Request(f, Chat, sender, ""), "27", ExpiryMaxId)

ExpiryFetch == \E since_id \in {0, 1} : Fetch(DEFAULT_FREQUENCY, since_id)

ExpiryTick == Tick(ExpiryStep, ExpiryMaxTicks * ExpiryStep)

NextExpiry == ExpirySend \/ ExpiryFetch \/ ExpiryTick

SpecExpiry == Init /\ [][NextExpiry]_vars

-----------------------------------------------------------------------------
(* SpecConcBus: request threads storing messages, interleaved statement by
   statement.  The threads handle /send requests that do not touch the
   runway scheduler: chat on the default frequency and a taxi request on the
   tower frequency, which the tower answers with a redirect.  The statements
   modelled are get_channel and the three lines that store a message, for
   the transmission and for the reply; the read and the write of
   channel["next_id"] += 1 are separate steps.  get_channel is taken as one
   step. *)

\* The state SpecConcBus leaves alone.
busFrame ==
    <<now, SEQUENCING, RUNWAY_STATE, PILOT_ASSIGNED_RUNWAY, ACTIVE_EMERGENCIES,
      ACTIVE_FLIGHT_PLANS, NEXT_HOUSEKEEP, out, objects, slot_of>>

BusThreadRequests ==
    { Request(DEFAULT_FREQUENCY, Chat, "N1", "u1"),
      Request(120, Plain({"taxi"}), "N2", "u2") }

\* No message built yet.
NoMessage == [id |-> 0, text |-> Chat, sender |-> ""]

\* The locals of a thread in send_message: the request, the message it is
\* storing (msg, or atc_msg once replied is set), and the value of next_id
\* read by += 1.
BusLocals(pc, req, msg, next_id, replied) ==
    [pc |-> pc, req |-> req, msg |-> msg, next_id |-> next_id, replied |-> replied]

\* A thread takes up a request that passes validation and policy.
BusArrive(h, req) ==
    /\ handler[h].pc = "idle"
    /\ arrivals < BusMaxRequests
    /\ req.text.parts > 0
    /\ can_transmit_on_frequency(req.frequency, req.sender_uuid)
    /\ arrivals' = arrivals + 1
    /\ handler' = [handler EXCEPT ![h] = BusLocals("channel", req, NoMessage, 0, FALSE)]
    /\ UNCHANGED <<busFrame, channels>>

\* channel = get_channel(freq)
BusGetChannel(h) ==
    /\ handler[h].pc = "channel"
    /\ channels' = get_channel(channels, handler[h].req.frequency, now)
    /\ handler' = [handler EXCEPT ![h].pc = "build"]
    /\ UNCHANGED <<busFrame, arrivals>>

\* msg = {"id": channel["next_id"], "text": text, "sender": sender}
BusBuild(h) ==
    /\ handler[h].pc = "build"
    /\ handler' = [handler EXCEPT
                      ![h].msg = [id |-> channels[handler[h].req.frequency].next_id,
                                  text |-> IF handler[h].replied THEN handler[h].msg.text
                                           ELSE handler[h].req.text,
                                  sender |-> IF handler[h].replied THEN handler[h].msg.sender
                                             ELSE handler[h].req.sender],
                      ![h].pc = "append"]
    /\ UNCHANGED <<busFrame, channels, arrivals>>

\* channel["messages"].append(msg)
BusAppend(h) ==
    /\ handler[h].pc = "append"
    /\ channels' = [channels EXCEPT ![handler[h].req.frequency].messages =
                        deque_append(@, handler[h].msg)]
    /\ handler' = [handler EXCEPT ![h].pc = "load"]
    /\ UNCHANGED <<busFrame, arrivals>>

\* channel["next_id"] += 1: the read
BusLoad(h) ==
    /\ handler[h].pc = "load"
    /\ handler' = [handler EXCEPT
                      ![h].next_id = channels[handler[h].req.frequency].next_id,
                      ![h].pc = "store"]
    /\ UNCHANGED <<busFrame, channels, arrivals>>

\* channel["next_id"] += 1: the write
BusStore(h) ==
    /\ handler[h].pc = "store"
    /\ channels' = [channels EXCEPT ![handler[h].req.frequency].next_id =
                        handler[h].next_id + 1]
    /\ handler' = [handler EXCEPT
                      ![h].pc = IF handler[h].replied THEN "return" ELSE "route"]
    /\ UNCHANGED <<busFrame, arrivals>>

\* atc_response = handle_atc(text, freq, sender); the requests of the
\* threads leave the scheduler alone.
BusRoute(h) ==
    /\ handler[h].pc = "route"
    /\ \E S \in {handle_atc(State, now, handler[h].req.text, handler[h].req.frequency,
                            handler[h].req.sender, "27")} :
          handler' = [handler EXCEPT
                         ![h].msg = [id |-> 0, text |-> S.reply, sender |-> S.reply.sender],
                         ![h].replied = TRUE,
                         ![h].pc = IF S.reply = NoReply THEN "return" ELSE "build"]
    /\ UNCHANGED <<busFrame, channels, arrivals>>

\* send_message returns.
BusReturn(h) ==
    /\ handler[h].pc = "return"
    /\ handler' = [handler EXCEPT ![h] = Idle]
    /\ UNCHANGED <<busFrame, channels, arrivals>>

BusThreadStep(h) ==
    \/ \E req \in BusThreadRequests : BusArrive(h, req)
    \/ BusGetChannel(h)
    \/ BusBuild(h)
    \/ BusAppend(h)
    \/ BusLoad(h)
    \/ BusStore(h)
    \/ BusRoute(h)
    \/ BusReturn(h)

NextConcBus == \E h \in Handlers : BusThreadStep(h)

SpecConcBus == Init /\ [][NextConcBus]_vars

-----------------------------------------------------------------------------
(* SpecMayday: emergencies, and transmissions on a frequency that belongs to
   no role of the airport.  Two pilots declare an emergency, one for a
   landing and one for a takeoff on the same physical runway, next to normal
   traffic; frequency 122 is neither the tower nor the ground frequency of
   ABCD.  The clock is the clock of SpecRoute. *)

MaydayRequests ==
    { Request(120, Plain({"takeoff"}), "N1", "u1"),
      Request(120, Plain({"takeoff", "mayday"}), "N2", "u2"),
      Request(120, Plain({"landing", "mayday"}), "N3", "u3"),
      Request(122, Plain({"takeoff"}), "N1", "u1"),
      Request(122, Plain({"taxi"}), "N1", "u1"),
      Request(122, Plain({}), "N1", "u1"),
      Request(122, Plain({"landing", "mayday"}), "N3", "u3") }

MaydaySend == \E req \in MaydayRequests : Send(req, "27", RouteMaxId)

NextMayday == MaydaySend \/ RouteTick

SpecMayday == Init /\ [][NextMayday]_vars

-----------------------------------------------------------------------------
(* SpecSweep: the sweep of process_runway_sequencing over the slots of two
   airports.  Pilots ask the tower of ABCD for takeoff, and a whitelisted
   pilot asks the tower of EFGH, whose frequency 901 is restricted to
   whitelisted senders, so that the sweep announces on a restricted
   frequency.  A client polls the tower frequency of ABCD as in SpecLive and
   the clock is the clock of SpecRoute. *)

SweepRequests ==
    { Request(120, Plain({"takeoff"}), "N1", "u1"),
      Request(120, Plain({"takeoff"}), "N2", "u2"),
      Request(901, Text(3, "EFGH", "", {"takeoff"}, NoRunwayToken), "N1", "u1") }

SweepSend == \E req \in SweepRequests : Send(req, "27", RouteMaxId)

NextSweep == SweepSend \/ LiveFetch \/ RouteTick

SpecSweep == Init /\ [][NextSweep]_vars

-----------------------------------------------------------------------------
(* SpecAssign: runway selection and PILOT_ASSIGNED_RUNWAY.  Pilot N1 asks
   the ground of ABCD for taxi and its tower for takeoff and landing, with
   and without naming a runway end: 36 is the takeoff end and 18 the landing
   end of RWY2, 27 and 09 are the ends of RWY1.  Pilot N2 asks for taxi.
   random.choice of the taxi selection draws either takeoff end.  The clock
   is the clock of SpecRoute. *)

AssignRequests ==
    { Request(121, Plain({"taxi"}), "N1", "u1"),
      Request(121, Naming({"taxi"}, <<3, 6>>), "N1", "u1"),
      Request(121, Plain({"taxi"}), "N2", "u2"),
      Request(120, Plain({"takeoff"}), "N1", "u1"),
      Request(120, Naming({"takeoff"}, <<2, 7>>), "N1", "u1"),
      Request(120, Plain({"landing"}), "N1", "u1"),
      Request(120, Naming({"landing"}, <<1, 8>>), "N1", "u1") }

AssignSend ==
    \E req \in AssignRequests, rnd \in {"27", "36"} : Send(req, rnd, RouteMaxId)

NextAssign == AssignSend \/ RouteTick

SpecAssign == Init /\ [][NextAssign]_vars

-----------------------------------------------------------------------------
(* SpecKinds: the kinds of transmission the router tells apart.  Next to a
   takeoff request of N1 on the tower frequency of ABCD, which occupies a
   slot, there are: a startup and a taxi request on the ground frequency, a
   landing request on the ground frequency, a filed flight plan that
   mentions a takeoff, a landing request of a helicopter, a transmission
   without a trigger, and a mayday whose only trigger is startup, sent on
   122, which is foreign to ABCD, so that the tower handles it.  The clock
   is the clock of SpecRoute. *)

KindsRequests ==
    { Request(120, Plain({"takeoff"}), "N1", "u1"),
      Request(121, Plain({"startup"}), "N1", "u1"),
      Request(121, Plain({"taxi"}), "N1", "u1"),
      Request(121, Plain({"landing"}), "N2", "u2"),
      Request(120, Plain({"flight_plan", "takeoff"}), "N2", "u2"),
      Request(120, Plain({"landing"}), "HELI1", "u2"),
      Request(120, Plain({}), "N2", "u2"),
      Request(122, Plain({"startup", "mayday"}), "N3", "u3") }

KindsSend == \E req \in KindsRequests : Send(req, "27", RouteMaxId)

NextKinds == KindsSend \/ RouteTick

SpecKinds == Init /\ [][NextKinds]_vars

-----------------------------------------------------------------------------
(* SpecFlags: the server under every setting of the two sequencing flags.
   Each of sequencing.enabled and sequencing.auto_clear_next is true, false
   or missing from atc_config.json.  Two pilots ask the tower of ABCD for
   takeoff and a third asks for landing, all on the first runway; clients
   poll /fetch.  The clock is the clock of SpecRoute. *)

Flag == {"true", "false", Absent}

InitFlags ==
    /\ InitState
    /\ SEQUENCING \in [enabled : Flag, auto_clear_next : Flag]

FlagsRequests ==
    { Request(120, Plain({"takeoff"}), "N1", "u1"),
      Request(120, Plain({"takeoff"}), "N2", "u2"),
      Request(120, Plain({"landing"}), "N3", "u3") }

FlagsSend == \E req \in FlagsRequests : Send(req, "27", RouteMaxId)

NextFlags == FlagsSend \/ LiveFetch \/ RouteTick

SpecFlags == InitFlags /\ [][NextFlags]_vars

-----------------------------------------------------------------------------
(* Vocabulary of the properties *)

\* The slot of (airport, runway) in RS; a slot that was never used is free.
SlotOf(RS, airport, runway) ==
    IF SlotIndex(RS, airport, runway) = 0 THEN NewSlot(airport, runway)
    ELSE RS[SlotIndex(RS, airport, runway)]

\* The runway slots as the router of a request handled now finds them: after
\* the request's own sweeps.
SweptSlots == sweeps(State, now).RUNWAY_STATE

RangeOf(seq) == {seq[i] : i \in 1..Len(seq)}

\* seq is prefix, or prefix with one more element appended.
ExtendsByAtMostOne(prefix, seq) ==
    \/ seq = prefix
    \/ Len(seq) = Len(prefix) + 1 /\ SubSeq(seq, 1, Len(prefix)) = prefix

Occurrences(seq, x) == Cardinality({i \in 1..Len(seq) : seq[i] = x})

-----------------------------------------------------------------------------
(* Channel bus properties *)

\* C1: in every channel the retained messages carry consecutive ids in
\* append order, the last one being next_id - 1; while nothing has been
\* evicted they are 1, 2, 3, ... and next_id is their number plus 1.
IdsSequential ==
    \A f \in DOMAIN channels :
        /\ \A i \in 1..Len(channels[f].messages) :
              channels[f].messages[i].id =
                  channels[f].next_id - Len(channels[f].messages) + i - 1
        /\ Len(channels[f].messages) < MAX_MESSAGES
              => channels[f].next_id = Len(channels[f].messages) + 1

\* Sends, their replies and an auto-cleared message of a sweep were appended
\* to the tower channel.
IdsSequentialWitness ==
    /\ 120 \in DOMAIN channels
    /\ Len(channels[120].messages) >= 5
    /\ \E i \in 1..Len(channels[120].messages) :
          channels[120].messages[i].text.kind = "auto_clear"
    /\ \E i \in 1..Len(channels[120].messages) :
          channels[120].messages[i].text.kind = "transmission"

\* C2: a channel holds at most MAX_MESSAGES messages, and once more than
\* that were appended (next_id - 1 of them) it holds exactly the last
\* MAX_MESSAGES appended: the ids next_id - MAX_MESSAGES .. next_id - 1, in
\* order, so that id 1 is gone after MAX_MESSAGES + 1 appends.
LogKeepsLatest ==
    \A f \in DOMAIN channels :
        /\ Len(channels[f].messages) <= MAX_MESSAGES
        /\ channels[f].next_id - 1 > MAX_MESSAGES =>
              /\ Len(channels[f].messages) = MAX_MESSAGES
              /\ \A i \in 1..MAX_MESSAGES :
                    channels[f].messages[i].id = channels[f].next_id - 1 - MAX_MESSAGES + i
              /\ \A i \in 1..MAX_MESSAGES : channels[f].messages[i].id # 1

\* MAX_MESSAGES + 1 messages were appended to a channel: the oldest it holds
\* has id 2.
LogKeepsLatestWitness ==
    \E f \in DOMAIN channels :
        /\ channels[f].next_id = MAX_MESSAGES + 2
        /\ Len(channels[f].messages) = MAX_MESSAGES
        /\ channels[f].messages[1].id = 2

\* C3: what a fetch returned is, in stored order, exactly the messages of
\* the channel whose id is greater than since_id (the i-th message returned
\* is the i-th such message of the log), and nothing when the frequency has
\* no channel.
FetchReturnsNewer ==
    out.op = "fetch" =>
        LET f == out.req.frequency
            M == IF f \in DOMAIN channels THEN channels[f].messages ELSE <<>>
            R == out.messages
            newer == {j \in 1..Len(M) : M[j].id > out.since_id}
        IN  /\ Len(R) = Cardinality(newer)
            /\ \A i \in 1..Len(R) :
                  \E j \in newer : /\ M[j] = R[i]
                                   /\ Cardinality({k \in newer : k < j}) = i - 1
            /\ f \notin DOMAIN channels => R = <<>>

\* A fetch with since_id 2 returned a proper, non-empty part of the log.
FetchReturnsNewerWitness ==
    /\ out.op = "fetch"
    /\ out.since_id = 2
    /\ Len(out.messages) >= 2
    /\ Len(channels[out.req.frequency].messages) = Len(out.messages) + 2

\* A fetch repeats the fetch before it: same frequency and since_id, and no
\* other request between the two (the clock may have advanced).
FetchRepeated ==
    /\ out.op = "fetch" /\ out'.op = "fetch"
    /\ out'.req = out.req /\ out'.since_id = out.since_id

-----------------------------------------------------------------------------
(* Runway sequencing properties *)

\* C7: in every step the queue of each slot loses at most its head, and only
\* to a promotion by the sweep (the head is among the entries the request
\* promoted), and gains at most one entry, at the tail: entries are promoted
\* in the order they were appended, one per promotion, and leave the queue
\* in no other way.
QueueIsFifo ==
    [][ \A i \in 1..Len(RUNWAY_STATE) :
          LET q == RUNWAY_STATE[i].queue
              q2 == SlotOf(RUNWAY_STATE', RUNWAY_STATE[i].airport,
                           RUNWAY_STATE[i].runway).queue
          IN  \/ ExtendsByAtMostOne(q, q2)
              \/ /\ q # <<>>
                 /\ ExtendsByAtMostOne(Tail(q), q2)
                 /\ Head(q) \in RangeOf(out'.promoted) ]_vars

\* A sweep promoted the head of a queue of two and left the second entry.
QueueIsFifoWitness ==
    /\ out.promoted # <<>>
    /\ \E i \in 1..Len(RUNWAY_STATE) :
          /\ RUNWAY_STATE[i].active = out.promoted[1]
          /\ RUNWAY_STATE[i].queue # <<>>
          /\ RUNWAY_STATE[i].queue[1].callsign # out.promoted[1].callsign

\* The step handles an accepted transmission that names a known airport and
\* is sent on its tower frequency (the tower role).
TowerRequestStep ==
    /\ now' = now /\ out'.op = "send" /\ out'.status = 200
    /\ atc_parse(out'.req.text, out'.req.sender).airport_code \in DOMAIN ATC_TOWERS
    /\ out'.req.frequency =
          ATC_TOWERS[atc_parse(out'.req.text, out'.req.sender).airport_code].tower_frequency

\* The slot of the runway end the reply of the step names, among the slots RS
\* of the airport of the request.
SlotNamed(RS, P) ==
    SlotOf(RS, P.airport_code,
           physical_id_for_runway_end(ATC_TOWERS[P.airport_code], out'.reply.runway))

\* An emergency landing request for a slot (after the handler's sweep: slot)
\* whose occupant is a non-expired non-emergency aircraft.
EmergencyOnOccupied(P, slot) ==
    /\ P.has_emergency
    /\ out'.reply.kind = "clearance" /\ out'.reply.action = "landing"
    /\ runway_active(slot, now)
    /\ ~slot.active.emergency

\* C8 amended: an emergency landing request on the tower frequency for a
\* slot whose occupant is a non-expired non-emergency aircraft makes the
\* emergency aircraft the active occupant, and appends the displaced
\* occupant once to the queue: the queue is the queue before the request
\* with the displaced occupant added at the tail, so that it is in the queue
\* once more than before.
EmergencyRequeuesAtTail ==
    [][ TowerRequestStep =>
          LET P == atc_parse(out'.req.text, out'.req.sender)
          IN  EmergencyOnOccupied(P, SlotNamed(SweptSlots, P)) =>
                /\ SlotNamed(RUNWAY_STATE', P).active.callsign = P.callsign
                /\ SlotNamed(RUNWAY_STATE', P).active.emergency
                /\ SlotNamed(RUNWAY_STATE', P).queue =
                      Append(SlotNamed(SweptSlots, P).queue,
                             SlotNamed(SweptSlots, P).active)
                /\ Occurrences(SlotNamed(RUNWAY_STATE', P).queue,
                               SlotNamed(SweptSlots, P).active) =
                      Occurrences(SlotNamed(SweptSlots, P).queue,
                                  SlotNamed(SweptSlots, P).active) + 1 ]_vars

\* An emergency landing displaced the occupant of a runway on which another
\* aircraft was waiting: the displaced occupant waits behind it.
EmergencyRequeuesWitness ==
    /\ out.op = "send" /\ out.reply.kind = "clearance"
    /\ "mayday" \in out.req.text.words
    /\ \E i \in 1..Len(RUNWAY_STATE) :
          /\ RUNWAY_STATE[i].active.emergency
          /\ RUNWAY_STATE[i].active.callsign = out.reply.callsign
          /\ RUNWAY_STATE[i].expires_at = now + OCCUPANCY.emergency_landing
          /\ Len(RUNWAY_STATE[i].queue) = 2
          /\ RUNWAY_STATE[i].queue[1].callsign = "N2"
          /\ RUNWAY_STATE[i].queue[2].callsign = "N1"

\* C8 as stated: an emergency landing request on the tower frequency for a
\* slot whose occupant is a non-expired non-emergency aircraft makes the
\* emergency aircraft the active occupant, and the displaced occupant is in
\* the queue exactly once, at the tail, behind the entries queued before, in
\* their order.
EmergencyDisplacesOnce ==
    [][ TowerRequestStep =>
          LET P == atc_parse(out'.req.text, out'.req.sender)
          IN  EmergencyOnOccupied(P, SlotNamed(SweptSlots, P)) =>
                /\ SlotNamed(RUNWAY_STATE', P).active.callsign = P.callsign
                /\ SlotNamed(RUNWAY_STATE', P).active.emergency
                /\ SlotNamed(RUNWAY_STATE', P).queue =
                      Append(SlotNamed(SweptSlots, P).queue,
                             SlotNamed(SweptSlots, P).active)
                /\ Occurrences(SlotNamed(RUNWAY_STATE', P).queue,
                               SlotNamed(SweptSlots, P).active) = 1 ]_vars

\* A non-emergency, non-helicopter landing or takeoff request.
PlainRunwayRequest(P) ==
    /\ ~P.has_emergency /\ ~P.is_helicopter
    /\ P.is_tower_request /\ ~P.is_ground_request
    /\ out'.reply.action \in {"landing", "takeoff"}

\* The requester holds the slot: it is the active occupant, until now plus
\* the occupancy configured for the action, on a valid end for the action.
Granted(P, slot) ==
    /\ slot.active # None
    /\ slot.active.callsign = P.callsign
    /\ slot.active.action = out'.reply.action
    /\ slot.active.runway = out'.reply.runway
    /\ ~slot.active.emergency
    /\ slot.expires_at = now' + OCCUPANCY[out'.reply.action]
    /\ out'.reply.callsign = P.callsign
    /\ out'.reply.runway \in runway_ends_for_action(ATC_TOWERS[P.airport_code],
                                                    out'.reply.action)

\* C9 as stated: such a request in the tower role for a slot that is free
\* when the request arrives (no active occupant, or an expired one) makes the
\* requester the active occupant until now + occupancy(action) and is
\* answered with a clearance naming a valid end for the action.
FreeSlotIsGranted ==
    [][ TowerRequestStep =>
          LET P == atc_parse(out'.req.text, out'.req.sender)
          IN  ( /\ PlainRunwayRequest(P)
                /\ ~runway_active(SlotNamed(RUNWAY_STATE, P), now) )
              => /\ Granted(P, SlotNamed(RUNWAY_STATE', P))
                 /\ out'.reply.kind = "clearance" ]_vars

\* C9 amended: the slot is free and nothing waits in its queue when the
\* request arrives; the reply is a clearance, or the invalid-runway
\* correction when the request names an end that is not valid for the action.
FreeSlotEmptyQueueIsGranted ==
    [][ TowerRequestStep =>
          LET P == atc_parse(out'.req.text, out'.req.sender)
          IN  ( /\ PlainRunwayRequest(P)
                /\ ~runway_active(SlotNamed(RUNWAY_STATE, P), now)
                /\ SlotNamed(RUNWAY_STATE, P).queue = <<>> )
              => /\ Granted(P, SlotNamed(RUNWAY_STATE', P))
                 /\ out'.reply.kind =
                      IF /\ P.requested_runway # ""
                         /\ P.requested_runway \notin
                               runway_ends_for_action(ATC_TOWERS[P.airport_code],
                                                      out'.reply.action)
                      THEN "invalid_runway" ELSE "clearance" ]_vars

\* A takeoff was cleared, at a clock value past 0, on a slot whose occupant
\* had expired.
FreeSlotWitness ==
    /\ out.op = "send" /\ out.reply.kind = "clearance" /\ out.reply.action = "takeoff"
    /\ now >= 2
    /\ \E i \in 1..Len(RUNWAY_STATE) :
          /\ RUNWAY_STATE[i].active # None
          /\ RUNWAY_STATE[i].active.callsign = out.reply.callsign
          /\ RUNWAY_STATE[i].expires_at = now + OCCUPANCY.takeoff
          /\ RUNWAY_STATE[i].queue = <<>>

\* C10: the position of a hold reply is the requester's place in the queue
\* plus one: the requester is the last, k-th, entry of the queue of the slot
\* and is told k + 1, so the first aircraft queued is told 2.
HoldPositionCountsActive ==
    out.op = "send" /\ out.reply.kind \in {"hold", "emergency_hold"} =>
        \E i \in 1..Len(RUNWAY_STATE) :
            /\ RUNWAY_STATE[i].runway =
                  physical_id_for_runway_end(ATC_TOWERS[RUNWAY_STATE[i].airport],
                                             out.reply.runway)
            /\ RUNWAY_STATE[i].queue # <<>>
            /\ RUNWAY_STATE[i].queue[Len(RUNWAY_STATE[i].queue)].callsign = out.reply.callsign
            /\ RUNWAY_STATE[i].queue[Len(RUNWAY_STATE[i].queue)].action = out.reply.action
            /\ out.reply.position = Len(RUNWAY_STATE[i].queue) + 1
            /\ out.reply.position >= 2

\* The second aircraft of a queue was told position 3.
HoldPositionWitness ==
    /\ out.op = "send" /\ out.reply.kind = "hold"
    /\ out.reply.position = 3
    /\ \E i \in 1..Len(RUNWAY_STATE) :
          /\ Len(RUNWAY_STATE[i].queue) = 2
          /\ RUNWAY_STATE[i].queue[2].callsign = out.reply.callsign

\* The slot dicts in use: the ones RUNWAY_STATE holds and the ones a running
\* handler holds in its local state.
LiveSlots ==
    ({slot_of[k] : k \in DOMAIN slot_of} \cup {handler[h].state : h \in Handlers}) \ {0}

\* C5: at every instant, also of interleaved handlers and sweeps, a runway
\* slot (airport, runway) has at most one active occupancy: no two slot
\* dicts in use for the same runway both have an active occupant.
OneActivePerSlot ==
    \A a \in LiveSlots, b \in LiveSlots :
        ( /\ objects[a].airport = objects[b].airport
          /\ objects[a].runway = objects[b].runway
          /\ objects[a].active # None
          /\ objects[b].active # None ) => a = b

\* The entries of the non-emergency requests of SpecLive.
LiveEntries == {ConcEntry("N1", "takeoff", FALSE), ConcEntry("N2", "takeoff", FALSE)}

Queued(e) == \E i \in 1..Len(RUNWAY_STATE) : e \in RangeOf(RUNWAY_STATE[i].queue)

\* The sweep of the last request made e the active occupant of its slot.
PromotedToActive(e) ==
    /\ e \in RangeOf(out.promoted)
    /\ \E i \in 1..Len(RUNWAY_STATE) : RUNWAY_STATE[i].active = e

SweepConfigured == SEQUENCING.enabled = "true" /\ SEQUENCING.auto_clear_next = "true"

\* C6 as stated: while the clock advances and requests keep arriving, a
\* queued non-emergency request is eventually made the active occupant of
\* its slot by the sweep.
QueuedIsPromoted ==
    \A e \in LiveEntries : Queued(e) ~> PromotedToActive(e)

\* C6 amended: the same, when the configuration sets both sequencing.enabled
\* and sequencing.auto_clear_next to true.
QueuedIsPromotedWhenConfigured ==
    \A e \in LiveEntries : (SweepConfigured /\ Queued(e)) ~> PromotedToActive(e)

\* A sweep promoted a queued takeoff after an emergency landing had displaced
\* the occupant of the runway.
QueuedIsPromotedWitness ==
    /\ SweepConfigured
    /\ \E e \in LiveEntries : PromotedToActive(e)
    /\ \E i \in 1..Len(RUNWAY_STATE) : RUNWAY_STATE[i].queue # <<>>
    /\ ACTIVE_EMERGENCIES # <<>>

-----------------------------------------------------------------------------
(* Routing properties *)

\* The step handles a transmission that send_message accepted.
AcceptedSendStep == now' = now /\ out'.op = "send" /\ out'.status = 200

\* The channels as the request handled now finds them: after its own sweeps.
SweptChannels == sweeps(State, now).channels

\* A non-helicopter landing or takeoff request whose text names a runway
\* that is no valid end for the action.
NamesInvalidEnd(P, text) ==
    /\ ~P.is_helicopter /\ ~P.is_ground_request
    /\ match_action(P) \in {"landing", "takeoff"}
    /\ text.rwy # NoRunwayToken
    /\ parse_requested_runway(text.rwy) \notin
          runway_ends_for_action(ATC_TOWERS[P.airport_code], match_action(P))

\* The requester holds or waits for the slot on the end the reply names: it
\* is the active occupant, or the entry queued last.
Reserved(P, slot) ==
    \/ /\ slot.active.callsign = P.callsign
       /\ slot.active.runway = out'.reply.runway
    \/ /\ slot.queue # <<>>
       /\ slot.queue[Len(slot.queue)].callsign = P.callsign
       /\ slot.queue[Len(slot.queue)].runway = out'.reply.runway

\* C11: a non-helicopter landing or takeoff request in the tower role that
\* names a runway end that is not valid for the action is answered with the
\* invalid-runway correction naming a valid end, the slot being free or
\* occupied, and the requester is made active or queued on the slot of that
\* end.
InvalidRunwayIsCorrected ==
    [][ TowerRequestStep =>
          LET P == atc_parse(out'.req.text, out'.req.sender)
          IN  NamesInvalidEnd(P, out'.req.text) =>
                /\ out'.reply.kind = "invalid_runway"
                /\ out'.reply.runway \in
                      runway_ends_for_action(ATC_TOWERS[P.airport_code], match_action(P))
                /\ Reserved(P, SlotNamed(RUNWAY_STATE', P)) ]_vars

\* The transmission names a configured airport with distinct frequencies and
\* is a ground request on its tower frequency or a tower request on its
\* ground frequency.
Redirected(P, req) ==
    /\ req.text.parts >= 2
    /\ P.airport_code \in DOMAIN ATC_TOWERS
    /\ LET tower == ATC_TOWERS[P.airport_code]
       IN  /\ tower.tower_frequency # tower.ground_frequency
           /\ \/ P.is_ground_request /\ req.frequency = tower.tower_frequency
              \/ P.is_tower_request /\ req.frequency = tower.ground_frequency

\* The frequency of the other role of the airport.
OtherFrequency(tower, frequency) ==
    IF frequency = tower.tower_frequency THEN tower.ground_frequency
    ELSE tower.tower_frequency

\* C12: a redirected transmission, with or without an emergency, changes no
\* runway slot (the slots are as the sweep at the start of the request left
\* them) and no pilot assignment, and is answered, if at all, with a redirect
\* naming the frequency of the other role.
RedirectChangesNothing ==
    [][ AcceptedSendStep =>
          LET P == atc_parse(out'.req.text, out'.req.sender)
          IN  Redirected(P, out'.req) =>
                /\ RUNWAY_STATE' = SweptSlots
                /\ PILOT_ASSIGNED_RUNWAY' = PILOT_ASSIGNED_RUNWAY
                /\ out'.reply.kind \in {"redirect", "none"}
                /\ out'.reply.kind = "redirect" =>
                      out'.reply.frequency =
                          OtherFrequency(ATC_TOWERS[P.airport_code], out'.req.frequency) ]_vars

\* An emergency landing sent on the ground frequency was redirected to the
\* tower while a runway was occupied and a runway end assigned.
RedirectWitness ==
    /\ out.op = "send" /\ out.req.frequency = 121
    /\ "mayday" \in out.req.text.words
    /\ out.reply.kind = "redirect" /\ out.reply.frequency = 120
    /\ PILOT_ASSIGNED_RUNWAY # <<>>
    /\ \E i \in 1..Len(RUNWAY_STATE) : runway_active(RUNWAY_STATE[i], now)

\* The send stored the transmission, and nothing else, in the channel of
\* its frequency and changed no runway slot: the channels and slots are as
\* the sweeps at the start of the request left them, but for that message.
StoredAlone(req) ==
    /\ out'.reply = NoReply
    /\ RUNWAY_STATE' = SweptSlots
    /\ DOMAIN channels' = DOMAIN SweptChannels \cup {req.frequency}
    /\ \A f \in DOMAIN SweptChannels \ {req.frequency} :
          channels'[f] = SweptChannels[f]
    /\ channels'[req.frequency].next_id = out'.id + 1
    /\ out'.id = IF req.frequency \in DOMAIN SweptChannels
                 THEN SweptChannels[req.frequency].next_id ELSE 1
    /\ channels'[req.frequency].messages =
          deque_append(IF req.frequency \in DOMAIN SweptChannels
                       THEN SweptChannels[req.frequency].messages ELSE <<>>,
                       [id |-> out'.id, text |-> req.text, sender |-> req.sender])

\* The transmission names no configured airport, or a configured one
\* without a phrase of any trigger.
UnknownOrUnmatched(P, req) ==
    /\ req.text.parts >= 2
    /\ \/ P.airport_code \notin DOMAIN ATC_TOWERS
       \/ match_action(P) = ""

\* C16 as stated: an accepted transmission that names an unknown airport, or
\* matches no trigger while no unknown-reply template is configured, is
\* stored alone: no reply follows it and no runway slot changes.
NoTriggerIsSilent ==
    [][ AcceptedSendStep =>
          LET P == atc_parse(out'.req.text, out'.req.sender)
          IN  UnknownOrUnmatched(P, out'.req) => StoredAlone(out'.req) ]_vars

\* C16 amended: the same, for a transmission without a trigger that declares
\* no emergency and files no flight plan; an unknown airport is silent in
\* every case.
NoTriggerNoEmergencyIsSilent ==
    [][ AcceptedSendStep =>
          LET P == atc_parse(out'.req.text, out'.req.sender)
          IN  ( /\ UnknownOrUnmatched(P, out'.req)
                /\ \/ P.airport_code \notin DOMAIN ATC_TOWERS
                   \/ ~P.has_emergency /\ ~P.is_flight_plan )
              => StoredAlone(out'.req) ]_vars

\* A transmission without a trigger phrase was stored as the last message of
\* the tower channel, behind a controller transmission, while a runway was
\* occupied.
NoTriggerWitness ==
    /\ out.op = "send" /\ out.status = 200
    /\ out.req.text = Plain({})
    /\ out.reply = NoReply
    /\ out.id >= 3
    /\ channels[120].messages[Len(channels[120].messages)].id = out.id
    /\ channels[120].messages[Len(channels[120].messages)].text = Plain({})
    /\ \E i \in 1..Len(RUNWAY_STATE) : runway_active(RUNWAY_STATE[i], now)

-----------------------------------------------------------------------------
(* Properties of the validation and the transmit policy *)

\* A /send is handled in the step.
SendStep_ == now' = now /\ out'.op = "send"

\* The transmit decision as the policy of a frequency states it.
PolicyAllows(freq, sender_uuid) ==
    \/ freq \notin DOMAIN CHANNELS_BY_FREQ
    \/ CHANNELS_BY_FREQ[freq].mode = "open"
    \/ /\ CHANNELS_BY_FREQ[freq].mode = "whitelist_uuid"
       /\ sender_uuid \in CHANNELS_BY_FREQ[freq].allowed_uuids

\* The shared state but for the channels is as the sweeps of the request
\* left it.
OnlySwept ==
    /\ RUNWAY_STATE' = SweptSlots
    /\ PILOT_ASSIGNED_RUNWAY' = PILOT_ASSIGNED_RUNWAY
    /\ ACTIVE_EMERGENCIES' = sweeps(State, now).ACTIVE_EMERGENCIES

\* C13: a send with a non-empty text that the transmit policy denies is
\* answered 403, not 400, and stores nothing: the channel map, with every
\* log and next_id, is as the sweeps of the request left it, no channel is
\* created for the frequency, no id is assigned and the router has not run
\* (no reply, no slot, assignment or emergency record touched).
DeniedSendStoresNothing ==
    [][ ( /\ SendStep_
          /\ out'.req.text.parts > 0
          /\ ~PolicyAllows(out'.req.frequency, out'.req.sender_uuid) )
        => /\ out'.status = 403
           /\ channels' = SweptChannels
           /\ out'.req.frequency \notin DOMAIN channels =>
                 out'.req.frequency \notin DOMAIN channels'
           /\ out'.id = 0
           /\ out'.reply = NoReply
           /\ OnlySwept ]_vars

\* A sender without identity was denied on the whitelisted frequency, on
\* which a message of a whitelisted sender is stored.
DeniedSendWitness ==
    /\ out.op = "send" /\ out.status = 403
    /\ out.req.frequency = 901 /\ out.req.sender_uuid = ""
    /\ 901 \in DOMAIN channels
    /\ channels[901].next_id = 2
    /\ Len(channels[901].messages) = 1

\* C14 as stated: a send rejected for empty text or by the policy leaves the
\* channels, the runway slots, the pilot assignments and the emergency
\* records as they were before the request.
RejectedSendMutatesNothing ==
    [][ (SendStep_ /\ out'.status \in {400, 403}) =>
            UNCHANGED <<channels, RUNWAY_STATE, PILOT_ASSIGNED_RUNWAY,
                        ACTIVE_EMERGENCIES>> ]_vars

\* C14 amended: a rejected send leaves them as the housekeeping and
\* sequencing sweeps at the start of the request leave them.
RejectedSendOnlySweeps ==
    [][ (SendStep_ /\ out'.status \in {400, 403}) =>
            (channels' = SweptChannels /\ OnlySwept) ]_vars

\* An empty text was rejected by a request whose sweep promoted a queued
\* aircraft.
RejectedSendWitness ==
    /\ out.op = "send" /\ out.status = 400
    /\ out.promoted # <<>>
    /\ \E i \in 1..Len(RUNWAY_STATE) : RUNWAY_STATE[i].active = out.promoted[1]

\* C15: a send with a non-empty text is accepted exactly when the frequency
\* has no dedicated policy, or its mode is open, or its mode is
\* whitelist_uuid and the sender's identity is in the allow-set, and denied
\* (403) otherwise; no channel of a server_only frequency holds a
\* transmission of a sender.
TransmitDecision ==
    /\ (out.op = "send" /\ out.req.text.parts > 0) =>
          /\ out.status = 200 <=> PolicyAllows(out.req.frequency, out.req.sender_uuid)
          /\ out.status = 403 <=> ~PolicyAllows(out.req.frequency, out.req.sender_uuid)
    /\ \A f \in DOMAIN channels :
          (f \in DOMAIN CHANNELS_BY_FREQ /\ CHANNELS_BY_FREQ[f].mode = "server_only") =>
              \A i \in 1..Len(channels[f].messages) :
                  channels[f].messages[i].text.kind # "transmission"

\* The whitelisted sender was accepted on the whitelisted frequency, after a
\* message was stored on the open dedicated frequency.
TransmitDecisionWitness ==
    /\ out.op = "send" /\ out.status = 200
    /\ out.req.frequency = 901 /\ out.req.sender_uuid = "u1"
    /\ channels[901].messages # <<>>
    /\ 902 \in DOMAIN channels
    /\ 900 \notin DOMAIN channels

-----------------------------------------------------------------------------
(* Properties of a request's effect on the channels *)

\* C17: after an accepted send the transmission is in the channel of its
\* frequency under the id returned to the caller, n; the reply of the
\* controller, if there is one, is the message right behind it, with id
\* n + 1, and nothing follows: the log ends with the transmission, or with
\* the transmission and its reply.
ReplyFollowsDirectly ==
    (out.op = "send" /\ out.status = 200) =>
        LET M == channels[out.req.frequency].messages
            k == IF out.reply = NoReply THEN Len(M) ELSE Len(M) - 1
        IN  /\ k >= 1
            /\ M[k] = [id |-> out.id, text |-> out.req.text, sender |-> out.req.sender]
            /\ out.reply # NoReply =>
                  M[k + 1] = [id |-> out.id + 1, text |-> out.reply,
                              sender |-> out.reply.sender]
            /\ channels[out.req.frequency].next_id = M[Len(M)].id + 1

\* The second request on the tower frequency was answered with a hold: the
\* transmission has id 3, the hold id 4.
ReplyFollowsWitness ==
    /\ out.op = "send" /\ out.status = 200
    /\ out.reply.kind = "hold"
    /\ out.id = 3
    /\ Len(channels[120].messages) = 4
    /\ channels[120].messages[4].text.kind = "hold"

\* A /fetch is handled in the step.
FetchStep_ == now' = now /\ out'.op = "fetch"

\* C19 as stated: a fetch leaves the channel map, every log, next_id and
\* last-active timestamp, and every runway slot unchanged.
FetchHasNoSideEffects ==
    [][ FetchStep_ => UNCHANGED <<channels, RUNWAY_STATE>> ]_vars

\* C19 amended: a fetch leaves the channel map, the logs, the next_ids and
\* the runway slots as the sweeps at its start left them and creates no
\* channel; of the channel fetched, when there is one, it sets the
\* last-active timestamp to now.
FetchOnlyRefreshes ==
    [][ FetchStep_ =>
          /\ RUNWAY_STATE' = SweptSlots
          /\ DOMAIN channels' = DOMAIN SweptChannels
          /\ \A g \in DOMAIN SweptChannels :
                channels'[g] = IF g = out'.req.frequency
                               THEN [SweptChannels[g] EXCEPT !.last_active = now]
                               ELSE SweptChannels[g] ]_vars

\* A fetch on the ground frequency, which has no channel, created none and
\* left the timestamp of the tower channel in the past, a runway being
\* occupied.
FetchOnlyRefreshesWitness ==
    /\ out.op = "fetch" /\ out.req.frequency = 121
    /\ 121 \notin DOMAIN channels
    /\ 120 \in DOMAIN channels
    /\ channels[120].last_active < now
    /\ \E i \in 1..Len(RUNWAY_STATE) : runway_active(RUNWAY_STATE[i], now)

\* A reader fetched messages of a frequency, and the next request handled is
\* an accepted send on that frequency.
SendAfterFetch ==
    /\ out.op = "fetch" /\ out.messages # <<>>
    /\ AcceptedSendStep
    /\ out'.req.frequency = out.req.frequency

-----------------------------------------------------------------------------
(* Id assignment under concurrent request threads *)

\* C18: with sends on one frequency handled by concurrent threads, the log
\* of every channel is in strictly increasing id order at every instant: no
\* two of its messages carry the same id.
IdsStrictlyIncreasing ==
    \A f \in DOMAIN channels :
        \A i \in 1..Len(channels[f].messages), j \in 1..Len(channels[f].messages) :
            i < j => channels[f].messages[i].id < channels[f].messages[j].id

-----------------------------------------------------------------------------
(* Properties of the hold branch and of the emergency override *)

\* The reply of the step is a hold.
HoldReply == out'.reply.kind \in {"hold", "emergency_hold"}

\* C21 as stated: the position of a hold reply is the length of the queue of
\* the slot right after the requester's entry was appended to it.
HoldPositionIsQueueLength ==
    [][ TowerRequestStep =>
          LET P == atc_parse(out'.req.text, out'.req.sender)
          IN  HoldReply =>
                out'.reply.position = Len(SlotNamed(RUNWAY_STATE', P).queue) ]_vars

\* C21 amended: the position of a hold reply is one more than the length of
\* the queue right after the append, which is two more than the length of
\* the queue the request found.
HoldPositionIsQueueLengthPlusOne ==
    [][ TowerRequestStep =>
          LET P == atc_parse(out'.req.text, out'.req.sender)
          IN  HoldReply =>
                /\ out'.reply.position = Len(SlotNamed(RUNWAY_STATE', P).queue) + 1
                /\ out'.reply.position = Len(SlotNamed(SweptSlots, P).queue) + 2 ]_vars

\* An aircraft was held behind an emergency landing as the only one waiting
\* and was told position 2.
HoldPositionPlusOneWitness ==
    /\ out.op = "send" /\ out.reply.kind = "emergency_hold"
    /\ out.reply.position = 2
    /\ \E i \in 1..Len(RUNWAY_STATE) :
          /\ RUNWAY_STATE[i].active.emergency
          /\ Len(RUNWAY_STATE[i].queue) = 1
          /\ RUNWAY_STATE[i].queue[1].callsign = out.reply.callsign

\* C22: a non-emergency landing or takeoff request in the tower role for a
\* slot whose occupant has not expired is answered with a hold; the queue of
\* the slot is the queue before the request with one entry for the requester
\* appended at the tail, and the active occupant and expires_at of the slot
\* are unchanged.
OccupiedSlotQueuesAtTail ==
    [][ TowerRequestStep =>
          LET P == atc_parse(out'.req.text, out'.req.sender)
              before == SlotNamed(RUNWAY_STATE, P)
              after == SlotNamed(RUNWAY_STATE', P)
          IN  (PlainRunwayRequest(P) /\ runway_active(before, now)) =>
                /\ HoldReply
                /\ after.active = before.active
                /\ after.expires_at = before.expires_at
                /\ Len(after.queue) = Len(before.queue) + 1
                /\ SubSeq(after.queue, 1, Len(before.queue)) = before.queue
                /\ after.queue[Len(after.queue)] =
                      [airport |-> P.airport_code, runway |-> out'.reply.runway,
                       callsign |-> P.callsign, action |-> out'.reply.action,
                       frequency |-> out'.req.frequency,
                       sender |-> ATC_TOWERS[P.airport_code].tower_sender,
                       emergency |-> FALSE] ]_vars

\* A second aircraft was queued behind the first one waiting, a second after
\* the occupant was cleared: the occupancy still ends when it did.
OccupiedSlotQueuesWitness ==
    /\ out.op = "send" /\ out.reply.kind = "hold"
    /\ now >= 1
    /\ \E i \in 1..Len(RUNWAY_STATE) :
          /\ runway_active(RUNWAY_STATE[i], now)
          /\ RUNWAY_STATE[i].expires_at < now + OCCUPANCY.takeoff
          /\ RUNWAY_STATE[i].active.callsign # out.reply.callsign
          /\ Len(RUNWAY_STATE[i].queue) = 2
          /\ RUNWAY_STATE[i].queue[1].callsign # out.reply.callsign
          /\ RUNWAY_STATE[i].queue[2].callsign = out.reply.callsign

\* The step handles an accepted transmission for a known airport on a
\* frequency other than its ground frequency: handle_atc answers in the
\* tower role, if it gets as far as the roles.
TowerRoleStep ==
    /\ AcceptedSendStep
    /\ atc_parse(out'.req.text, out'.req.sender).airport_code \in DOMAIN ATC_TOWERS
    /\ out'.req.frequency #
          ATC_TOWERS[atc_parse(out'.req.text, out'.req.sender).airport_code].ground_frequency

\* An emergency landing or takeoff request that the tower has sequenced.
EmergencySequenced(P) ==
    /\ P.has_emergency /\ ~P.is_helicopter
    /\ out'.reply.kind = "clearance"
    /\ out'.reply.action \in {"landing", "takeoff"}

\* C23: an emergency request for a slot whose occupant is a non-expired
\* emergency makes the requester the active occupant and leaves the queue as
\* it was; the displaced emergency is not in the queue, and not the active
\* occupant unless it is the requester itself repeating its request.
DisplacedEmergencyIsDropped ==
    [][ TowerRoleStep =>
          LET P == atc_parse(out'.req.text, out'.req.sender)
              before == SlotNamed(SweptSlots, P)
              after == SlotNamed(RUNWAY_STATE', P)
          IN  ( /\ EmergencySequenced(P)
                /\ runway_active(before, now)
                /\ before.active.emergency )
              => /\ after.active.callsign = P.callsign
                 /\ after.active.emergency
                 /\ after.queue = before.queue
                 /\ before.active \notin RangeOf(after.queue)
                 /\ before.active.callsign # P.callsign =>
                       after.active # before.active ]_vars

\* N2 declared an emergency on the runway N3 held for its emergency landing,
\* N1 waiting: N2 is active, N1 still waits alone and N3, whose emergency is
\* on record, holds no slot and waits in no queue.
DisplacedEmergencyWitness ==
    /\ out.op = "send" /\ out.reply.kind = "clearance"
    /\ out.req.sender = "N2" /\ "mayday" \in out.req.text.words
    /\ <<"ABCD", "N3">> \in DOMAIN ACTIVE_EMERGENCIES
    /\ \E i \in 1..Len(RUNWAY_STATE) :
          /\ RUNWAY_STATE[i].active.callsign = "N2"
          /\ RUNWAY_STATE[i].active.emergency
          /\ Len(RUNWAY_STATE[i].queue) = 1
          /\ RUNWAY_STATE[i].queue[1].callsign = "N1"
    /\ \A i \in 1..Len(RUNWAY_STATE) :
          /\ RUNWAY_STATE[i].active.callsign # "N3"
          /\ \A j \in 1..Len(RUNWAY_STATE[i].queue) :
                RUNWAY_STATE[i].queue[j].callsign # "N3"

\* C24: every emergency landing or takeoff request the tower sequences makes
\* the requester the active occupant of the slot until now plus the
\* emergency occupancy, whether the slot was free, held by normal traffic or
\* held by an emergency.
EmergencyBecomesActive ==
    [][ TowerRoleStep =>
          LET P == atc_parse(out'.req.text, out'.req.sender)
              after == SlotNamed(RUNWAY_STATE', P)
          IN  EmergencySequenced(P) =>
                /\ after.active.callsign = P.callsign
                /\ after.active.emergency
                /\ after.expires_at = now + OCCUPANCY.emergency_landing ]_vars

-----------------------------------------------------------------------------
(* Properties of the sweeps *)

\* The occupant of the slot has expired at time t.
Expired(slot, t) == slot.active # None /\ t >= slot.expires_at

\* The sweep at time t finds the slot free, or frees it, with entries waiting.
Promotes(slot, t) ==
    (slot.active = None \/ Expired(slot, t)) /\ slot.queue # <<>>

\* The channels once the housekeeping of the request handled now has run.
KeptChannels == housekeeping(State, now).channels

\* The messages of frequency f in chs; none when it has no channel.
LogOf(chs, f) == IF f \in DOMAIN chs THEN chs[f].messages ELSE <<>>

\* The indices of the slots whose head entry, queued on frequency f, the
\* sweep at the present time promotes.
PromotingOn(f) ==
    {i \in 1..Len(RUNWAY_STATE) :
        Promotes(RUNWAY_STATE[i], now) /\ Head(RUNWAY_STATE[i].queue).frequency = f}

\* C25: the sweep a fetch runs treats every slot by itself.  A slot that is
\* free, or whose occupant has expired, and has entries waiting loses exactly
\* the head of its queue, which becomes active until now plus the occupancy
\* of its action; an expired slot with nobody waiting is cleared; every other
\* slot is unchanged.  Each frequency gains exactly one message per entry
\* promoted that was queued on it, an auto-cleared message for that entry
\* under the entry's controller sender, whatever the transmit policy of the
\* frequency, and no other message.
SweepAdvancesEachSlot ==
    [][ FetchStep_ =>
          /\ Len(RUNWAY_STATE') = Len(RUNWAY_STATE)
          /\ \A i \in 1..Len(RUNWAY_STATE) :
                LET slot == RUNWAY_STATE[i]
                    after == RUNWAY_STATE'[i]
                IN  IF Promotes(slot, now)
                    THEN /\ after.active = Head(slot.queue)
                         /\ after.queue = Tail(slot.queue)
                         /\ after.expires_at = now + OCCUPANCY[Head(slot.queue).action]
                         /\ \E k \in 1..Len(channels'[Head(slot.queue).frequency].messages) :
                               LET m == channels'[Head(slot.queue).frequency].messages[k]
                               IN  /\ k > Len(LogOf(KeptChannels, Head(slot.queue).frequency))
                                   /\ m.text = AutoClearText(Head(slot.queue))
                                   /\ m.sender = Head(slot.queue).sender
                    ELSE IF Expired(slot, now)
                    THEN after = [slot EXCEPT !.active = None, !.expires_at = 0]
                    ELSE after = slot
          /\ \A f \in DOMAIN channels' \cup DOMAIN KeptChannels :
                /\ f \in DOMAIN channels'
                /\ Len(channels'[f].messages) =
                      Len(LogOf(KeptChannels, f)) + Cardinality(PromotingOn(f))
                /\ SubSeq(channels'[f].messages, 1, Len(LogOf(KeptChannels, f))) =
                      LogOf(KeptChannels, f) ]_vars

\* The sweep of a fetch promoted the aircraft waiting at EFGH and announced
\* it on frequency 901, on which the policy admits whitelisted senders only,
\* while a runway of ABCD was occupied.
SweepAdvancesWitness ==
    /\ out.op = "fetch"
    /\ \E e \in RangeOf(out.promoted) :
          /\ e.frequency = 901
          /\ ~can_transmit_on_frequency(901, e.sender)
          /\ SlotOf(RUNWAY_STATE, "EFGH", "RWY1").active = e
          /\ SlotOf(RUNWAY_STATE, "EFGH", "RWY1").expires_at = now + OCCUPANCY[e.action]
          /\ channels[901].messages[Len(channels[901].messages)].text = AutoClearText(e)
          /\ channels[901].messages[Len(channels[901].messages)].sender = "EFGH Tower"
    /\ runway_active(SlotOf(RUNWAY_STATE, "ABCD", "RWY1"), now)

\* A /send or a /fetch is handled in the step.
RequestStep == SendStep_ \/ FetchStep_

\* C26: a request handled less than HOUSEKEEP_MIN_INTERVAL after a request
\* that ran the sweeps (now < _NEXT_HOUSEKEEP) finds every sweep idle: no
\* channel is expired, no emergency record or flight plan is dropped, and the
\* runway sweep clears no slot, promotes no entry and announces nothing.
SweepsAreThrottled ==
    [][ (RequestStep /\ now < NEXT_HOUSEKEEP) =>
            /\ sweeps(State, now).channels = channels
            /\ sweeps(State, now).ACTIVE_EMERGENCIES = ACTIVE_EMERGENCIES
            /\ sweeps(State, now).ACTIVE_FLIGHT_PLANS = ACTIVE_FLIGHT_PLANS
            /\ sweeps(State, now).RUNWAY_STATE = RUNWAY_STATE
            /\ out'.promoted = <<>> ]_vars

\* C27: when the housekeeping of a request runs (now >= _NEXT_HOUSEKEEP),
\* every channel idle for more than FREQUENCY_EXPIRE_SECONDS is removed (it
\* is there after the request only if the request is a send on it, which
\* starts a new log at id 1), and every channel idle for no longer than that
\* is kept as it is: after the request it has its log, extended at most by
\* the messages of the request, and untouched when the request is for
\* another frequency.  A channel sent to within the window is thus never
\* removed.
ExpiryRemovesIdleOnly ==
    [][ (RequestStep /\ now >= NEXT_HOUSEKEEP) =>
          \A f \in DOMAIN channels :
              IF now - channels[f].last_active > FREQUENCY_EXPIRE_SECONDS
              THEN /\ f \notin DOMAIN KeptChannels
                   /\ f \in DOMAIN channels' =>
                         /\ out'.op = "send" /\ out'.req.frequency = f
                         /\ out'.id = 1
                         /\ channels'[f].messages[1].id = 1
              ELSE /\ f \in DOMAIN KeptChannels
                   /\ KeptChannels[f] = channels[f]
                   /\ f \in DOMAIN channels'
                   /\ SubSeq(channels'[f].messages, 1, Len(channels[f].messages)) =
                         channels[f].messages
                   /\ channels'[f].next_id >= channels[f].next_id
                   /\ f # out'.req.frequency => channels'[f] = channels[f] ]_vars

\* The housekeeping of a fetch on the default frequency ran three quarters
\* of an hour after start-up and kept the channel of frequency 17, idle for
\* exactly FREQUENCY_EXPIRE_SECONDS, with its log; the default frequency has
\* no channel.
ExpiryRemovesIdleWitness ==
    /\ out.op = "fetch" /\ out.req.frequency = DEFAULT_FREQUENCY
    /\ NEXT_HOUSEKEEP = now + HOUSEKEEP_MIN_INTERVAL
    /\ now = 3 * ExpiryStep
    /\ DEFAULT_FREQUENCY \notin DOMAIN channels
    /\ 17 \in DOMAIN channels
    /\ now - channels[17].last_active = FREQUENCY_EXPIRE_SECONDS
    /\ Len(channels[17].messages) = 2

-----------------------------------------------------------------------------
(* Properties of transmissions on a foreign frequency *)

\* The step handles an accepted transmission for a known airport on a
\* frequency that is neither its tower nor its ground frequency.
ForeignFrequencyStep ==
    /\ AcceptedSendStep
    /\ out'.req.text.parts >= 2
    /\ atc_parse(out'.req.text, out'.req.sender).airport_code \in DOMAIN ATC_TOWERS
    /\ LET tower == ATC_TOWERS[atc_parse(out'.req.text, out'.req.sender).airport_code]
       IN  out'.req.frequency \notin {tower.tower_frequency, tower.ground_frequency}

\* C28: on a frequency that belongs to no role of the airport, a
\* transmission without an emergency changes no runway slot and no pilot
\* assignment and is answered only when it has tower or ground intent, with
\* the wrong-frequency reply naming the frequency of that role; an emergency
\* landing is sequenced as on the tower frequency: the requester is the
\* active occupant of the slot of its landing end until now plus the
\* emergency occupancy, a displaced non-emergency occupant waits at the tail
\* of the queue, the emergency is on record and the tower clears it.
ForeignFrequencyGate ==
    [][ ForeignFrequencyStep =>
          LET P == atc_parse(out'.req.text, out'.req.sender)
              tower == ATC_TOWERS[P.airport_code]
              before == SlotNamed(SweptSlots, P)
              after == SlotNamed(RUNWAY_STATE', P)
          IN  /\ ~P.has_emergency =>
                    /\ RUNWAY_STATE' = SweptSlots
                    /\ PILOT_ASSIGNED_RUNWAY' = PILOT_ASSIGNED_RUNWAY
                    /\ out'.reply.kind \in {"none", "wrong_frequency"}
                    /\ out'.reply.kind = "wrong_frequency" =>
                          \/ /\ P.is_tower_request
                             /\ out'.reply.frequency = tower.tower_frequency
                          \/ /\ P.is_ground_request /\ ~P.is_tower_request
                             /\ out'.reply.frequency = tower.ground_frequency
              /\ ( /\ P.has_emergency /\ ~P.is_helicopter
                   /\ match_action(P) = "landing" ) =>
                    /\ out'.reply.kind = "clearance"
                    /\ out'.reply.sender = tower.tower_sender
                    /\ out'.reply.runway \in runway_ends_for_action(tower, "landing")
                    /\ after.active =
                          [airport |-> P.airport_code, runway |-> out'.reply.runway,
                           callsign |-> P.callsign, action |-> "landing",
                           frequency |-> out'.req.frequency,
                           sender |-> tower.tower_sender, emergency |-> TRUE]
                    /\ after.expires_at = now + OCCUPANCY.emergency_landing
                    /\ after.queue =
                          IF runway_active(before, now) /\ ~before.active.emergency
                          THEN Append(before.queue, before.active)
                          ELSE before.queue
                    /\ <<P.airport_code, Upper(P.callsign)>> \in DOMAIN ACTIVE_EMERGENCIES' ]_vars

\* An emergency landing declared on frequency 122 took the runway from the
\* aircraft cleared on the tower frequency, which waits in the queue.
ForeignFrequencyWitness ==
    /\ out.op = "send" /\ out.req.frequency = 122
    /\ out.reply.kind = "clearance" /\ out.reply.action = "landing"
    /\ \E i \in 1..Len(RUNWAY_STATE) :
          /\ RUNWAY_STATE[i].active.callsign = "N3"
          /\ RUNWAY_STATE[i].active.emergency
          /\ RUNWAY_STATE[i].active.frequency = 122
          /\ RUNWAY_STATE[i].expires_at = now + OCCUPANCY.emergency_landing
          /\ RUNWAY_STATE[i].queue # <<>>
          /\ RUNWAY_STATE[i].queue[Len(RUNWAY_STATE[i].queue)].frequency = 120

-----------------------------------------------------------------------------
(* Properties of the runway selection *)

\* The pilot of the transmission parsed as P.
PilotKey(P) == <<P.airport_code, P.callsign>>

\* The step handles an accepted transmission for a known airport, answered
\* with a clearance, a hold or a correction that names a runway end.
GrantStep ==
    /\ AcceptedSendStep
    /\ atc_parse(out'.req.text, out'.req.sender).airport_code \in DOMAIN ATC_TOWERS
    /\ out'.reply.kind \in {"clearance", "hold", "emergency_hold", "invalid_runway"}
    /\ out'.reply.runway # ""

\* C29: a taxi clearance naming end R stores R as the assignment of the
\* pilot; an assignment changes only with a request of its pilot that is
\* granted a runway end; and a takeoff request in the tower role that names
\* no runway, from a pilot whose stored assignment R is a takeoff end, is
\* resolved to R and leaves the assignment R.  So the takeoff that follows a
\* taxi clearance, no other runway being granted to the pilot in between, is
\* resolved to the end of the taxi clearance.
TakeoffFollowsTaxi ==
    [][ /\ GrantStep =>
              PILOT_ASSIGNED_RUNWAY'[PilotKey(atc_parse(out'.req.text, out'.req.sender))]
                  = out'.reply.runway
        /\ \A k \in DOMAIN PILOT_ASSIGNED_RUNWAY :
              /\ k \in DOMAIN PILOT_ASSIGNED_RUNWAY'
              /\ PILOT_ASSIGNED_RUNWAY'[k] # PILOT_ASSIGNED_RUNWAY[k] =>
                    GrantStep /\ k = PilotKey(atc_parse(out'.req.text, out'.req.sender))
        /\ TowerRequestStep =>
              LET P == atc_parse(out'.req.text, out'.req.sender)
                  R == assigned_runway(PILOT_ASSIGNED_RUNWAY, PilotKey(P))
              IN  ( /\ match_action(P) = "takeoff"
                    /\ out'.req.text.rwy = NoRunwayToken
                    /\ R \in runway_ends_for_action(ATC_TOWERS[P.airport_code], "takeoff") )
                  => /\ out'.reply.kind \in {"clearance", "hold", "emergency_hold"}
                     /\ out'.reply.runway = R
                     /\ PILOT_ASSIGNED_RUNWAY'[PilotKey(P)] = R ]_vars

\* N1, cleared to taxi to runway 36 by the ground, asked the tower for
\* takeoff without naming a runway and was cleared on 36, not on the first
\* takeoff end 27.
TakeoffFollowsTaxiWitness ==
    /\ out.op = "send" /\ out.req = Request(120, Plain({"takeoff"}), "N1", "u1")
    /\ out.reply.kind = "clearance" /\ out.reply.runway = "36"
    /\ PILOT_ASSIGNED_RUNWAY[<<"ABCD", "N1">>] = "36"
    /\ 121 \in DOMAIN channels
    /\ \E i \in 1..Len(channels[121].messages) :
          /\ channels[121].messages[i].text.kind = "clearance"
          /\ channels[121].messages[i].text.action = "taxi"
          /\ channels[121].messages[i].text.callsign = "N1"
          /\ channels[121].messages[i].text.runway = "36"

\* C30: a landing, takeoff or taxi request that is granted a runway end is
\* resolved in one order: a named end that is valid for the action is used
\* and stored as the assignment of the pilot; otherwise a stored assignment
\* that is valid for the action is reused and stays stored; so a landing
\* request naming no runway from a pilot whose stored assignment is a landing
\* end is resolved to that end.
ResolutionOrderIsUniform ==
    [][ ( /\ GrantStep
          /\ out'.reply.kind \in {"clearance", "hold", "emergency_hold"} ) =>
          LET P == atc_parse(out'.req.text, out'.req.sender)
              action == match_action(P)
              valid == runway_ends_for_action(ATC_TOWERS[P.airport_code], action)
              named == Upper(P.requested_runway)
              R == assigned_runway(PILOT_ASSIGNED_RUNWAY, PilotKey(P))
          IN  action \in {"landing", "takeoff", "taxi"} =>
                 /\ (P.requested_runway # "" /\ named \in valid) =>
                        /\ out'.reply.runway = named
                        /\ PILOT_ASSIGNED_RUNWAY'[PilotKey(P)] = named
                 /\ (~(P.requested_runway # "" /\ named \in valid) /\ R \in valid) =>
                        /\ out'.reply.runway = R
                        /\ PILOT_ASSIGNED_RUNWAY'[PilotKey(P)] = R ]_vars

\* The first configured end of the airport for the action, taxi using the
\* takeoff ends.
FirstConfiguredEnd(tower, action) ==
    choose_runway_for_action(tower, IF action = "taxi" THEN "takeoff" ELSE action)[2]

\* C31: a landing, takeoff or taxi request that is granted a runway end,
\* names no valid end for the action and comes from a pilot without a stored
\* assignment valid for the action, is resolved to the first configured
\* valid end for the action.
DefaultEndIsFirstConfigured ==
    [][ ( /\ GrantStep
          /\ out'.reply.kind \in {"clearance", "hold", "emergency_hold"} ) =>
          LET P == atc_parse(out'.req.text, out'.req.sender)
              action == match_action(P)
              valid == runway_ends_for_action(ATC_TOWERS[P.airport_code], action)
              named == Upper(P.requested_runway)
              R == assigned_runway(PILOT_ASSIGNED_RUNWAY, PilotKey(P))
          IN  ( /\ action \in {"landing", "takeoff", "taxi"}
                /\ ~(P.requested_runway # "" /\ named \in valid)
                /\ R \notin valid )
              => out'.reply.runway = FirstConfiguredEnd(ATC_TOWERS[P.airport_code], action) ]_vars

-----------------------------------------------------------------------------
(* Properties of the kinds of transmission *)

\* C32: an emergency transmission handled in the tower role whose first
\* matched trigger is none of landing, takeoff and taxi is answered with a
\* clearance for a landing end of the airport, and its callsign is the
\* active occupant of the slot of that end until the emergency occupancy
\* has passed.
EmergencyDefaultsToLanding ==
    [][ TowerRoleStep =>
          LET P == atc_parse(out'.req.text, out'.req.sender)
              tower == ATC_TOWERS[P.airport_code]
          IN  ( /\ P.has_emergency
                /\ match_action(P) \notin {"", "landing", "takeoff", "taxi"}
                /\ out'.reply.kind \notin {"redirect", "flight_plan"} )
              => /\ out'.reply.kind = "clearance"
                 /\ out'.reply.runway \in runway_ends_for_action(tower, "landing")
                 /\ \E i \in 1..Len(RUNWAY_STATE') :
                       /\ RUNWAY_STATE'[i].airport = P.airport_code
                       /\ RUNWAY_STATE'[i].runway =
                             physical_id_for_runway_end(tower, out'.reply.runway)
                       /\ RUNWAY_STATE'[i].active # None
                       /\ RUNWAY_STATE'[i].active.callsign = P.callsign
                       /\ RUNWAY_STATE'[i].expires_at
                             = now + runway_occupancy(TRUE, "landing") ]_vars

-----------------------------------------------------------------------------
(* Properties of the slot key *)

\* The physical id of the runway record of the airport that lists the end.
PhysicalRunwayOf(tower, runway_end) ==
    LET rec == CHOOSE r \in RangeOf(tower.runways) :
                  runway_end \in RangeOf(r.landing_ends) \cup RangeOf(r.takeoff_ends)
    IN  rec.physical_id

\* The entry is the entry of a request of P for the end.
EntryOf(entry, P, runway_end) ==
    /\ entry # None
    /\ entry.callsign = P.callsign /\ entry.runway = runway_end

\* C33: a non-emergency landing or takeoff request in the tower role is
\* sequenced on the slot of the physical runway of the end it is answered
\* for, whether that end was named, stored or the default: if the occupant
\* of that slot, cleared for whichever end of the runway, has not expired,
\* the request is held and its entry is appended to the queue of that slot;
\* if it has expired or there is none, the request is not held, whatever
\* occupies the other runways, and is the active occupant of that slot; and
\* the slots of the other physical runways are as the sweep left them.
EndsShareSlot ==
    [][ TowerRequestStep =>
          LET P == atc_parse(out'.req.text, out'.req.sender)
              tower == ATC_TOWERS[P.airport_code]
              key == PhysicalRunwayOf(tower, out'.reply.runway)
              before == SlotOf(SweptSlots, P.airport_code, key)
              after == SlotOf(RUNWAY_STATE', P.airport_code, key)
          IN  PlainRunwayRequest(P) =>
                /\ runway_active(before, now) =>
                      /\ HoldReply
                      /\ after.active = before.active
                      /\ Len(after.queue) = Len(before.queue) + 1
                      /\ EntryOf(after.queue[Len(after.queue)], P, out'.reply.runway)
                /\ ~runway_active(before, now) =>
                      /\ ~HoldReply
                      /\ EntryOf(after.active, P, out'.reply.runway)
                      /\ after.queue = before.queue
                /\ \A i \in 1..Len(RUNWAY_STATE') :
                      ~(RUNWAY_STATE'[i].airport = P.airport_code
                            /\ RUNWAY_STATE'[i].runway = key) =>
                         /\ i <= Len(SweptSlots)
                         /\ RUNWAY_STATE'[i] = SweptSlots[i] ]_vars

\* N3, asking to land, is held for end 09 behind an aircraft cleared for
\* takeoff on end 27 of the same runway, while N2 occupies the other runway
\* for a takeoff on its end 36.
EndsShareSlotWitness ==
    /\ out.op = "send"
    /\ out.reply.kind = "hold" /\ out.reply.runway = "09" /\ out.reply.callsign = "N3"
    /\ LET one == SlotOf(RUNWAY_STATE, "ABCD", "RWY1")
           two == SlotOf(RUNWAY_STATE, "ABCD", "RWY2")
       IN  /\ runway_active(one, now) /\ one.active.runway = "27"
           /\ one.queue # <<>>
           /\ one.queue[Len(one.queue)].callsign = "N3"
           /\ one.queue[Len(one.queue)].runway = "09"
           /\ runway_active(two, now)
           /\ two.active.callsign = "N2" /\ two.active.runway = "36"
           /\ two.queue = <<>>

-----------------------------------------------------------------------------
(* Properties of the queue discipline *)

\* C34: a non-emergency landing or takeoff request in the tower role that
\* is not held, and so is made the active occupant, finds the queue of its
\* slot empty; and after the sweep of any request every slot whose occupant
\* is gone or has expired has an empty queue.
NoQueueJumping ==
    [][ /\ TowerRequestStep =>
              LET P == atc_parse(out'.req.text, out'.req.sender)
                  key == PhysicalRunwayOf(ATC_TOWERS[P.airport_code], out'.reply.runway)
              IN  ( /\ PlainRunwayRequest(P) /\ ~HoldReply
                    /\ EntryOf(SlotOf(RUNWAY_STATE', P.airport_code, key).active, P,
                               out'.reply.runway) )
                  => SlotOf(RUNWAY_STATE', P.airport_code, key).queue = <<>>
        /\ RequestStep =>
              \A i \in 1..Len(SweptSlots) :
                  ~runway_active(SweptSlots[i], now) => SweptSlots[i].queue = <<>> ]_vars

\* C37: under every setting of the sequencing flags, when a request is
\* answered with a hold and so has an entry in a queue, a run of the sweep
\* at the time the occupant of a slot expires makes the head of the queue
\* of that slot its active occupant.
HeldIsPromotable ==
    [][ (SendStep_ /\ HoldReply) =>
          \A i \in 1..Len(RUNWAY_STATE') :
              RUNWAY_STATE'[i].queue # <<>> =>
                  process_runway_sequencing(State', RUNWAY_STATE'[i].expires_at)
                          .RUNWAY_STATE[i].active
                      = Head(RUNWAY_STATE'[i].queue) ]_vars

\* C35: no entry of a queue has its emergency flag set, and neither has an
\* entry the sweep of the last request promoted.
NoEmergencyQueued ==
    /\ \A i \in 1..Len(RUNWAY_STATE) :
          \A j \in 1..Len(RUNWAY_STATE[i].queue) : ~RUNWAY_STATE[i].queue[j].emergency
    /\ \A e \in RangeOf(out.promoted) : ~e.emergency

\* The sweep promoted the aircraft an emergency had displaced; an emergency
\* was recorded and nothing is left in the queue of the slot.
NoEmergencyQueuedWitness ==
    /\ out.promoted # <<>>
    /\ <<"ABCD", "N3">> \in DOMAIN ACTIVE_EMERGENCIES
    /\ \E i \in 1..Len(RUNWAY_STATE) :
          /\ RUNWAY_STATE[i].active = out.promoted[1]
          /\ RUNWAY_STATE[i].active.callsign = "N1"
          /\ RUNWAY_STATE[i].queue = <<>>

\* How often the callsign occurs among the active occupant and the queue
\* entries of the slot.
OccurrencesOn(slot, callsign) ==
    (IF slot.active # None /\ slot.active.callsign = callsign THEN 1 ELSE 0)
    + Cardinality({j \in 1..Len(slot.queue) : slot.queue[j].callsign = callsign})

\* The callsigns that occur in the slots.
CallsignsIn(RS) ==
    UNION { {RS[i].active.callsign} \cup {RS[i].queue[j].callsign : j \in 1..Len(RS[i].queue)}
            : i \in 1..Len(RS) } \ {""}

\* C36 as stated: a callsign occurs at most once among the active occupant
\* and the queue entries of a slot.
CallsignOncePerSlot ==
    \A i \in 1..Len(RUNWAY_STATE) :
        \A c \in CallsignsIn(RUNWAY_STATE) : OccurrencesOn(RUNWAY_STATE[i], c) <= 1

\* C36 amended: a step adds at most one occurrence of a callsign to the
\* active occupant and queue entries of a slot, and adds one only when it
\* handles an accepted transmission of that callsign; so a callsign occurs
\* on a slot at most as often as it has sent requests.
OccurrencesGrowByRequest ==
    [][ \A i \in 1..Len(RUNWAY_STATE') :
          \A c \in CallsignsIn(RUNWAY_STATE') :
              LET before == SlotOf(RUNWAY_STATE, RUNWAY_STATE'[i].airport,
                                   RUNWAY_STATE'[i].runway)
              IN  /\ OccurrencesOn(RUNWAY_STATE'[i], c) <= OccurrencesOn(before, c) + 1
                  /\ OccurrencesOn(RUNWAY_STATE'[i], c) > OccurrencesOn(before, c) =>
                        /\ AcceptedSendStep
                        /\ atc_parse(out'.req.text, out'.req.sender).callsign = c ]_vars

\* N3, cleared to land, declared an emergency while it occupied the runway:
\* it is the active occupant as an emergency and waits in the queue with its
\* earlier entry.
OccurrencesWitness ==
    \E i \in 1..Len(RUNWAY_STATE) :
        /\ RUNWAY_STATE[i].active.callsign = "N3" /\ RUNWAY_STATE[i].active.emergency
        /\ OccurrencesOn(RUNWAY_STATE[i], "N3") = 2
        /\ out.op = "send" /\ out.req.sender = "N3"

-----------------------------------------------------------------------------
(* Properties of concurrent handlers *)

\* The occupancies the running threads have granted and that have not run
\* out, with the thread of each.
RunningGrants ==
    { <<h, g>> \in Handlers \X UNION {handler[h].granted : h \in Handlers} :
          g \in handler[h].granted /\ now < g.expires_at }

\* C38: of the non-emergency requests of different pilots that running
\* threads handle for one runway, at most one has been made the active
\* occupant, and so cleared, for an occupancy that has not run out.
OneClearancePerSlot ==
    \A x \in RunningGrants, y \in RunningGrants :
        ( /\ x[1] # y[1]
          /\ x[2].by = "request" /\ y[2].by = "request"
          /\ ~x[2].entry.emergency /\ ~y[2].entry.emergency
          /\ ConcKey(x[2].entry) = ConcKey(y[2].entry) )
        => x[2].entry.callsign = y[2].entry.callsign

\* C39: the sweeps of the running threads have promoted at most one entry
\* on a slot for an occupancy that has not run out: no second entry is taken
\* from the queue and announced while the first is the occupant.
OnePromotionPerSlot ==
    \A x \in RunningGrants, y \in RunningGrants :
        ( /\ x[2].by = "sweep" /\ y[2].by = "sweep"
          /\ x[2].state = y[2].state )
        => x = y

-----------------------------------------------------------------------------
(* Frame of the runway slots *)

\* The step handles an accepted transmission for a known airport that is
\* not sent on a ground frequency of its own: the role is tower, also at an
\* airport with one frequency for both.
NotGroundRoleStep ==
    /\ AcceptedSendStep
    /\ LET P == atc_parse(out'.req.text, out'.req.sender)
       IN  /\ P.airport_code \in DOMAIN ATC_TOWERS
           /\ ~( /\ out'.req.frequency = ATC_TOWERS[P.airport_code].ground_frequency
                 /\ ATC_TOWERS[P.airport_code].ground_frequency
                        # ATC_TOWERS[P.airport_code].tower_frequency )

\* C40: a request leaves the slots as its sweep leaves them, creating none,
\* unless it is an accepted transmission handled in the tower role whose
\* first matched action is landing or takeoff, sent by no helicopter and
\* being no flight plan; a step that handles no request leaves the slots
\* unchanged.
SlotsChangeByTowerRequest ==
    [][ /\ RequestStep =>
              ( RUNWAY_STATE' # SweptSlots =>
                  /\ NotGroundRoleStep
                  /\ LET P == atc_parse(out'.req.text, out'.req.sender)
                     IN  /\ match_action(P) \in {"landing", "takeoff"}
                         /\ ~P.is_helicopter
                         /\ ~P.is_flight_plan )
        /\ ~RequestStep => RUNWAY_STATE' = RUNWAY_STATE ]_vars

\* A helicopter was cleared to land while N1 occupied the first runway; the
\* runway has its one slot, with N1 on it and nobody waiting.
SlotsUntouchedWitness ==
    /\ out.op = "send" /\ out.req.sender = "HELI1"
    /\ out.reply.kind = "clearance" /\ out.reply.action = "landing"
    /\ Len(RUNWAY_STATE) = 1
    /\ runway_active(RUNWAY_STATE[1], now)
    /\ RUNWAY_STATE[1].active.callsign = "N1"
    /\ RUNWAY_STATE[1].queue = <<>>

=============================================================================
